---- MODULE Spec2Model ----
(***************************************************************************)
(* Orchestration core of the audio-course generator (src/App.tsx): the     *)
(* playback engine, the per-lecture content pipeline, auto-advance and the *)
(* video job poller.  Every handler of the component is one action; the    *)
(* handlers are written as operators from the component's state (a record  *)
(* of its useState values and refs) to its next state, so that a handler   *)
(* that calls stopPlayback or startPlayback is the composition the code    *)
(* performs.  Awaited service calls are requests in flight: the part of a  *)
(* handler after an await is the action that resolves the request.         *)
(***************************************************************************)
EXTENDS Integers, Sequences, FiniteSets, TLC

\* ---------------------------------------------------------------- bounds
NumLectures == 2      \* lectures of every outline (indices 0..NumLectures-1)
Dur == 2              \* duration of every decoded buffer, in clock ticks
MaxTime == 2          \* the hardware clock is followed up to this tick
MaxGen == 2           \* course generations started
MaxRuns == 2          \* populateAllLectures runs in flight at once
MaxAudioReqs == 1     \* generateSingleAudio requests in flight at once
MaxDetached == 1      \* 'ended' events queued for nodes no longer referenced
MaxToasts == 2        \* 'course ready' toasts counted per outline
NumEdits == 1         \* distinct scripts the editor can type
MaxOffset == 3        \* largest stored pause offset followed
MaxTimers == 2        \* poll timers created by setInterval
MaxVideoReqs == 1     \* startVideoGeneration requests in flight at once
MaxChecks == 1        \* getVideoOperationStatus requests in flight at once
MaxDownloads == 1     \* full-course files downloaded
MaxChunks == 2        \* base64 payloads handed to one WAV conversion
MaxQuads == 1         \* 4-character groups in one base64 payload
MaxPcmBytes == 5      \* bytes handed to one decodeAudioData call
MaxChannels == 2      \* channels asked of one decodeAudioData call

PScale == 60          \* progress (a fraction 0..1) is held in units of 1/PScale

Lectures == 0 .. (NumLectures - 1)
NoIndex == -1
NoScript == 0
NoData == 0
Outlines == 1 .. MaxGen
\* A script is named by a number: the detail request of outline g returns
\* script g; the editor types the scripts after those.
Scripts == 1 .. (MaxGen + NumEdits)
EditScripts == (MaxGen + 1) .. (MaxGen + NumEdits)
\* The seek bar positions used: the fractions k/Dur.
SeekFractions == {(k * PScale) \div Dur : k \in 0 .. Dur}

\* generateLectureAudio: the base64 payload returned for a script.  Payloads
\* are named by the script they were synthesized from (an absent script is
\* spoken as the text "undefined", which is a payload too); a payload the
\* service returns either decodes or, being malformed base64 or of odd byte
\* length, makes decode / decodeAudioData throw: those are the negative ones.
SynthBytes(script, wellFormed) == IF wellFormed THEN script + 1 ELSE 0 - (script + 1)
Decodable(bytes) == bytes > 0

NoNode == [index |-> NoIndex, startAt |-> 0, offset |-> 0, status |-> "none",
           onended |-> FALSE, pending |-> FALSE]
NoBuffer == [bytes |-> NoData, duration |-> 0]
NoLecture == [index |-> NoIndex, script |-> NoScript]
NoCourse == [outline |-> 0, scripts |-> [i \in Lectures |-> NoScript]]
NoError == "null"
NoTimer == 0
NoAction == [kind |-> "null", index |-> NoIndex, gen |-> 0]
\* handleDownloadAll gives up a wait when `attempts > 60`
ExportMaxAttempts == 60
NoExport == [active |-> FALSE, i |-> 0, attempts |-> 0, audioDatas |-> <<>>,
             uiState |-> [i \in Lectures |-> "none"]]
NoExportError == [kind |-> "null", index |-> NoIndex]
LoadError == "Audio failed to load."
NoBlob == [kind |-> "none", index |-> NoIndex, bytes |-> <<>>]
NoAudioBuffer == [error |-> "none", length |-> 0, channelData |-> <<>>]
NoDecoded == [data |-> <<>>, numChannels |-> 0, buffer |-> NoAudioBuffer]

VARIABLES
    audioContextRef,        \* TRUE once the AudioContext and gain node exist
    ctxTime,                \* audioContextRef.current.currentTime
    currentSourceRef,       \* the AudioBufferSourceNode referenced, or NoNode
    detached,               \* nodes no longer referenced whose 'ended' event is queued
    intentionallyStoppedRef,
    playbackStartTimeRef,
    playbackPausedTimeRef,
    currentlyPlaying,       \* [index, script] of the selected lecture, or NoLecture
    playerState,
    lastPlayedIndex,
    course,                 \* [outline, scripts], or NoCourse
    lectureUiState,         \* index -> audioState ("none" when the key is absent)
    audioDataCache,         \* index -> payload, NoData when absent
    audioBufferCache,       \* index -> decoded buffer, NoBuffer when absent
    actualDurations,        \* index -> duration, 0 when absent
    isOutlining,
    outlineRequest,         \* the outline a generateCourseOutline call is for, 0 if none
    generations,            \* handleGenerateCourse calls so far
    populateRuns,           \* populateAllLectures runs in flight
    audioRequests,          \* generateSingleAudio calls in flight, with their continuation
    readyToasts,            \* outline -> 'course ready' toasts added by its runs
    videoStates,            \* index -> video status ("idle" when the key is absent)
    pollingIntervals,       \* index -> id of the registered poll timer, or NoTimer
    timers,                 \* the intervals that are running: [id, index, gen]
    timerCount,             \* ids handed out by setInterval so far
    videoStarts,            \* startVideoGeneration calls in flight
    statusChecks,           \* getVideoOperationStatus calls in flight
    isApiKeyModalOpen,
    pendingAction,          \* the action kept for after key selection, or NoAction
    isDownloadingAll,
    exportTask,             \* the handleDownloadAll call that is waiting, or NoExport
    exportError,            \* the error toast the last handleDownloadAll added
    outlineErrorToast,      \* the last handleGenerateCourse added its error toast
    downloads,              \* the payload lists merged and offered for download
    base64Audios,           \* the base64 payloads at hand for a WAV conversion
    wavBlob,                \* the last WAV file built, or NoBlob
    decodedAudio            \* the last decodeAudioData call and its outcome, or NoDecoded

vars == <<audioContextRef, ctxTime, currentSourceRef, detached, intentionallyStoppedRef,
          playbackStartTimeRef, playbackPausedTimeRef, currentlyPlaying, playerState,
          lastPlayedIndex, course, lectureUiState, audioDataCache, audioBufferCache,
          actualDurations, isOutlining, outlineRequest, generations, populateRuns,
          audioRequests, readyToasts, videoStates, pollingIntervals, timers, timerCount,
          videoStarts, statusChecks, isApiKeyModalOpen, pendingAction,
          isDownloadingAll, exportTask, exportError, outlineErrorToast, downloads,
          base64Audios, wavBlob, decodedAudio>>

\* The component's state as one record, and its assignment.
Cur == [audioContextRef |-> audioContextRef, ctxTime |-> ctxTime,
        currentSourceRef |-> currentSourceRef, detached |-> detached,
        intentionallyStoppedRef |-> intentionallyStoppedRef,
        playbackStartTimeRef |-> playbackStartTimeRef,
        playbackPausedTimeRef |-> playbackPausedTimeRef,
        currentlyPlaying |-> currentlyPlaying, playerState |-> playerState,
        lastPlayedIndex |-> lastPlayedIndex, course |-> course,
        lectureUiState |-> lectureUiState, audioDataCache |-> audioDataCache,
        audioBufferCache |-> audioBufferCache, actualDurations |-> actualDurations,
        isOutlining |-> isOutlining, outlineRequest |-> outlineRequest,
        generations |-> generations, populateRuns |-> populateRuns,
        audioRequests |-> audioRequests, readyToasts |-> readyToasts,
        videoStates |-> videoStates, pollingIntervals |-> pollingIntervals,
        timers |-> timers, timerCount |-> timerCount, videoStarts |-> videoStarts,
        statusChecks |-> statusChecks, isApiKeyModalOpen |-> isApiKeyModalOpen,
        pendingAction |-> pendingAction, isDownloadingAll |-> isDownloadingAll,
        exportTask |-> exportTask, exportError |-> exportError,
        outlineErrorToast |-> outlineErrorToast, downloads |-> downloads,
        base64Audios |-> base64Audios, wavBlob |-> wavBlob,
        decodedAudio |-> decodedAudio]

Commit(s) ==
    /\ audioContextRef' = s.audioContextRef
    /\ ctxTime' = s.ctxTime
    /\ currentSourceRef' = s.currentSourceRef
    /\ detached' = s.detached
    /\ intentionallyStoppedRef' = s.intentionallyStoppedRef
    /\ playbackStartTimeRef' = s.playbackStartTimeRef
    /\ playbackPausedTimeRef' = s.playbackPausedTimeRef
    /\ currentlyPlaying' = s.currentlyPlaying
    /\ playerState' = s.playerState
    /\ lastPlayedIndex' = s.lastPlayedIndex
    /\ course' = s.course
    /\ lectureUiState' = s.lectureUiState
    /\ audioDataCache' = s.audioDataCache
    /\ audioBufferCache' = s.audioBufferCache
    /\ actualDurations' = s.actualDurations
    /\ isOutlining' = s.isOutlining
    /\ outlineRequest' = s.outlineRequest
    /\ generations' = s.generations
    /\ populateRuns' = s.populateRuns
    /\ audioRequests' = s.audioRequests
    /\ readyToasts' = s.readyToasts
    /\ videoStates' = s.videoStates
    /\ pollingIntervals' = s.pollingIntervals
    /\ timers' = s.timers
    /\ timerCount' = s.timerCount
    /\ videoStarts' = s.videoStarts
    /\ statusChecks' = s.statusChecks
    /\ isApiKeyModalOpen' = s.isApiKeyModalOpen
    /\ pendingAction' = s.pendingAction
    /\ isDownloadingAll' = s.isDownloadingAll
    /\ exportTask' = s.exportTask
    /\ exportError' = s.exportError
    /\ outlineErrorToast' = s.outlineErrorToast
    /\ downloads' = s.downloads
    /\ base64Audios' = s.base64Audios
    /\ wavBlob' = s.wavBlob
    /\ decodedAudio' = s.decodedAudio

InitialPlayerState ==
    [isLoading |-> FALSE, isPlaying |-> FALSE, progress |-> 0, currentTime |-> 0,
     duration |-> 0, volume |-> 1, error |-> NoError]

Init ==
    /\ audioContextRef = FALSE
    /\ ctxTime = 0
    /\ currentSourceRef = NoNode
    /\ detached = <<>>
    /\ intentionallyStoppedRef = FALSE
    /\ playbackStartTimeRef = 0
    /\ playbackPausedTimeRef = 0
    /\ currentlyPlaying = NoLecture
    /\ playerState = InitialPlayerState
    /\ lastPlayedIndex = NoIndex
    /\ course = NoCourse
    /\ lectureUiState = [i \in Lectures |-> "none"]
    /\ audioDataCache = [i \in Lectures |-> NoData]
    /\ audioBufferCache = [i \in Lectures |-> NoBuffer]
    /\ actualDurations = [i \in Lectures |-> 0]
    /\ isOutlining = FALSE
    /\ outlineRequest = 0
    /\ generations = 0
    /\ populateRuns = <<>>
    /\ audioRequests = <<>>
    /\ readyToasts = [g \in Outlines |-> 0]
    /\ videoStates = [i \in Lectures |-> "idle"]
    /\ pollingIntervals = [i \in Lectures |-> NoTimer]
    /\ timers = {}
    /\ timerCount = 0
    /\ videoStarts = <<>>
    /\ statusChecks = <<>>
    /\ isApiKeyModalOpen = FALSE
    /\ pendingAction = NoAction
    /\ isDownloadingAll = FALSE
    /\ exportTask = NoExport
    /\ exportError = NoExportError
    /\ outlineErrorToast = FALSE
    /\ downloads = <<>>
    /\ base64Audios = <<>>
    /\ wavBlob = NoBlob
    /\ decodedAudio = NoDecoded

\* ------------------------------------------------------- sequence helpers
RemoveAt(seq, k) == [j \in 1 .. (Len(seq) - 1) |-> IF j < k THEN seq[j] ELSE seq[j + 1]]

\* ---------------------------------------------------- the playback engine
\* AudioBufferSourceNode.stop(): a playing node falls silent and its 'ended'
\* event is queued; a node that already ended is unchanged.  The start time
\* and offset of a node are read only while it plays.
StopNode(n) ==
    IF n.status = "playing"
    THEN [n EXCEPT !.status = "stopped", !.pending = TRUE, !.startAt = 0, !.offset = 0]
    ELSE n

\* The position in the buffer a playing node has reached at clock time t.
NodePosition(n, t) == n.offset + (t - n.startAt)

\* A stopPlayback that only silences the node: the onended handler stays
\* attached, the reference is kept and the intentional-stop flag is not set.
StopPlayback_OnlyStops(s, clearPlayer) ==
    LET s2 == [s EXCEPT !.currentSourceRef = StopNode(@)]
    IN  IF clearPlayer
        THEN [s2 EXCEPT !.currentlyPlaying = NoLecture,
                        !.playbackPausedTimeRef = 0,
                        !.playerState = [@ EXCEPT !.isPlaying = FALSE, !.progress = 0,
                                                  !.currentTime = 0, !.duration = 0,
                                                  !.error = NoError]]
        ELSE [s2 EXCEPT !.playerState = [@ EXCEPT !.isPlaying = FALSE]]

\* A stopPlayback that, when it clears the session, puts the whole player
\* state back to its initial value.
StopPlayback_ResetsPlayer(s, clearPlayer) ==
    LET n == s.currentSourceRef
        stopped == [StopNode(n) EXCEPT !.onended = FALSE]
        s1 == [s EXCEPT !.intentionallyStoppedRef = TRUE]
        s2 == IF n # NoNode
              THEN [s1 EXCEPT !.currentSourceRef = NoNode,
                              !.detached = IF stopped.pending
                                           THEN Append(@, stopped) ELSE @]
              ELSE s1
    IN  IF clearPlayer
        THEN [s2 EXCEPT !.currentlyPlaying = NoLecture,
                        !.playbackPausedTimeRef = 0,
                        !.playerState = InitialPlayerState]
        ELSE [s2 EXCEPT !.playerState = [@ EXCEPT !.isPlaying = FALSE]]

\* stopPlayback(clearPlayer)
StopPlayback(s, clearPlayer) ==
    LET n == s.currentSourceRef
        stopped == [StopNode(n) EXCEPT !.onended = FALSE]
        s1 == [s EXCEPT !.intentionallyStoppedRef = TRUE]
        s2 == IF n # NoNode
              THEN [s1 EXCEPT !.currentSourceRef = NoNode,
                              !.detached = IF stopped.pending
                                           THEN Append(@, stopped) ELSE @]
              ELSE s1
    IN  IF clearPlayer
        THEN [s2 EXCEPT !.currentlyPlaying = NoLecture,
                        !.playbackPausedTimeRef = 0,
                        !.playerState = [@ EXCEPT !.isPlaying = FALSE, !.progress = 0,
                                                  !.currentTime = 0, !.duration = 0,
                                                  !.error = NoError]]
        ELSE [s2 EXCEPT !.playerState = [@ EXCEPT !.isPlaying = FALSE]]

\* A startPlayback that does not call stopPlayback first: the node that was
\* referenced goes on playing, unreferenced.
StartPlayback_NoStop(s, buffer, index, offset) ==
    IF ~s.audioContextRef
    THEN s
    ELSE LET source == [index |-> index, startAt |-> s.ctxTime, offset |-> offset,
                        status |-> "playing", onended |-> TRUE, pending |-> FALSE]
         IN  [s EXCEPT !.intentionallyStoppedRef = FALSE,
                       !.playbackStartTimeRef = s.ctxTime - offset,
                       !.playbackPausedTimeRef = offset,
                       !.currentSourceRef = source,
                       !.detached = IF s.currentSourceRef # NoNode
                                    THEN Append(@, s.currentSourceRef) ELSE @,
                       !.playerState = [@ EXCEPT !.isPlaying = TRUE, !.isLoading = FALSE,
                                                 !.duration = buffer.duration]]

\* startPlayback(buffer, index, offset)
StartPlayback(s, buffer, index, offset) ==
    IF ~s.audioContextRef
    THEN s
    ELSE LET s1 == StopPlayback(s, FALSE)
             source == [index |-> index, startAt |-> s.ctxTime, offset |-> offset,
                        status |-> "playing", onended |-> TRUE, pending |-> FALSE]
         IN  [s1 EXCEPT !.intentionallyStoppedRef = FALSE,
                        !.playbackStartTimeRef = s.ctxTime - offset,
                        !.playbackPausedTimeRef = offset,
                        !.currentSourceRef = source,
                        !.playerState = [@ EXCEPT !.isPlaying = TRUE, !.isLoading = FALSE,
                                                  !.duration = buffer.duration]]

\* decodeAudioData(decode(base64), ctx, 24000, 1): the buffer of a payload.
DecodeAudioData(bytes) == [bytes |-> bytes, duration |-> Dur]

\* A playAudioFromCache that decodes the payload on every call and does not
\* keep the decoded buffer.
PlayAudioFromCache_NoCache(s, index) ==
    LET base64Audio == s.audioDataCache[index]
    IN  IF base64Audio = NoData \/ ~Decodable(base64Audio)
        THEN [state |-> s, ok |-> FALSE]
        ELSE LET bufferToPlay == DecodeAudioData(base64Audio)
                 s1 == [s EXCEPT !.audioBufferCache[index] = NoBuffer,
                                 !.actualDurations[index] = bufferToPlay.duration]
             IN  [state |-> StartPlayback(s1, bufferToPlay, index, 0), ok |-> TRUE]

\* playAudioFromCache(index): the state after it, and whether it returned
\* (ok) or threw.
PlayAudioFromCache(s, index) ==
    LET cached == s.audioBufferCache[index]
        base64Audio == s.audioDataCache[index]
    IN  IF cached = NoBuffer /\ (base64Audio = NoData \/ ~Decodable(base64Audio))
        THEN [state |-> s, ok |-> FALSE]
        ELSE LET bufferToPlay == IF cached # NoBuffer THEN cached
                                 ELSE DecodeAudioData(base64Audio)
                 s1 == [s EXCEPT !.audioBufferCache[index] = bufferToPlay,
                                 !.actualDurations[index] = bufferToPlay.duration]
             IN  [state |-> StartPlayback(s1, bufferToPlay, index, 0), ok |-> TRUE]

\* generateSingleAudio(lecture, index) up to its await: the state is set to
\* loading and the synthesis request is in flight; kind names the caller,
\* whose code after the await runs when the request resolves, and gen the
\* course generation whose lecture the call was given.
GenerateSingleAudio(s, script, index, kind) ==
    [s EXCEPT !.lectureUiState[index] = "loading",
              !.audioRequests = Append(@, [kind |-> kind, index |-> index,
                                           script |-> script, gen |-> s.generations])]

\* The catch block of handleSetLectureToPlay and of handleRetryAudioGeneration.
PlaybackFailed(s) ==
    [s EXCEPT !.playerState = [@ EXCEPT !.isLoading = FALSE, !.error = LoadError]]

\* The code of handleSetLectureToPlay / handleRetryAudioGeneration after
\* `await generateSingleAudio(...)` returned audioData (NoData for null).
AfterAudio(s, index, audioData) ==
    IF audioData = NoData
    THEN PlaybackFailed(s)
    ELSE LET r == PlayAudioFromCache(s, index)
         IN  IF r.ok THEN r.state ELSE PlaybackFailed(r.state)

\* handleSetLectureToPlay(lecture, index)
HandleSetLectureToPlay(s, script, index) ==
    IF s.currentlyPlaying.index = index
    THEN IF s.playerState.error # NoError
         THEN s
         ELSE IF s.playerState.isPlaying
         THEN LET s1 == IF s.audioContextRef
                        THEN [s EXCEPT !.playbackPausedTimeRef =
                                          @ + (s.ctxTime - s.playbackStartTimeRef)]
                        ELSE s
              IN  StopPlayback(s1, FALSE)
         ELSE LET buffer == s.audioBufferCache[index]
              IN  IF buffer # NoBuffer
                  THEN StartPlayback(s, buffer, index, s.playbackPausedTimeRef)
                  ELSE s
    ELSE LET s1 == StopPlayback(s, TRUE)
             s2 == [s1 EXCEPT !.currentlyPlaying = [index |-> index, script |-> script],
                              !.playerState = [@ EXCEPT !.isLoading = TRUE,
                                                        !.currentTime = 0,
                                                        !.progress = 0,
                                                        !.error = NoError]]
             audioData == s2.audioDataCache[index]
             audioState == s.lectureUiState[index]
         IN  IF audioData = NoData \/ audioState = "error"
             THEN GenerateSingleAudio(s2, script, index, "play")
             ELSE AfterAudio(s2, index, audioData)

\* handleRetryAudioGeneration
HandleRetryAudioGeneration(s) ==
    IF s.currentlyPlaying = NoLecture
    THEN s
    ELSE LET s1 == [s EXCEPT !.playerState = [@ EXCEPT !.isLoading = TRUE,
                                                       !.error = NoError]]
         IN  GenerateSingleAudio(s1, s.currentlyPlaying.script,
                                 s.currentlyPlaying.index, "retry")

\* The source.onended handler startPlayback installs, run for node n;
\* isCurrent: n is the node currentSourceRef references.
OnEnded(s, n, isCurrent) ==
    IF isCurrent /\ ~s.intentionallyStoppedRef
    THEN [s EXCEPT !.playerState = [@ EXCEPT !.isPlaying = FALSE, !.progress = PScale,
                                             !.currentTime = s.playerState.duration],
                   !.lastPlayedIndex = n.index]
    ELSE s

\* An auto-advance effect that, after the last lecture, stops without
\* clearing the session.
AutoAdvanceEffect_NoClear(s) ==
    LET nextIndex == s.lastPlayedIndex + 1
        s1 == IF nextIndex < NumLectures
              THEN HandleSetLectureToPlay(s, s.course.scripts[nextIndex], nextIndex)
              ELSE StopPlayback(s, FALSE)
    IN  [s1 EXCEPT !.lastPlayedIndex = NoIndex]

\* The auto-advance effect (it acts when lastPlayedIndex is set and a course exists).
AutoAdvanceEffect(s) ==
    LET nextIndex == s.lastPlayedIndex + 1
        s1 == IF nextIndex < NumLectures
              THEN HandleSetLectureToPlay(s, s.course.scripts[nextIndex], nextIndex)
              ELSE StopPlayback(s, TRUE)
    IN  [s1 EXCEPT !.lastPlayedIndex = NoIndex]

\* updateProgress (one animation frame)
UpdateProgress(s) ==
    LET elapsedTime == s.ctxTime - s.playbackStartTimeRef
        newCurrentTime == s.playbackPausedTimeRef + elapsedTime
    IN  IF newCurrentTime >= s.playerState.duration
        THEN [s EXCEPT !.playerState = [@ EXCEPT !.currentTime = s.playerState.duration,
                                                 !.progress = PScale]]
        ELSE [s EXCEPT !.playerState =
                 [@ EXCEPT !.currentTime = newCurrentTime,
                           !.progress = (newCurrentTime * PScale)
                                          \div s.playerState.duration]]

\* handleSeek(newProgress)
HandleSeek(s, newProgress) ==
    LET index == s.currentlyPlaying.index
    IN  IF index = NoIndex \/ s.playerState.duration = 0
        THEN s
        ELSE LET newTime == (s.playerState.duration * newProgress) \div PScale
                 s1 == [s EXCEPT !.playbackPausedTimeRef = newTime,
                                 !.playerState = [@ EXCEPT !.progress = newProgress,
                                                           !.currentTime = newTime]]
                 buffer == s.audioBufferCache[index]
             IN  IF s.playerState.isPlaying /\ buffer # NoBuffer
                 THEN StartPlayback(s1, buffer, index, newTime)
                 ELSE s1

\* handleVolumeChange(newVolume); the gain node's value follows the state's.
HandleVolumeChange(s, newVolume) == [s EXCEPT !.playerState.volume = newVolume]

\* ------------------------------------------------- the content pipeline
HasContent(s, index) == s.course # NoCourse /\ s.course.scripts[index] # NoScript

Settled(run) == \A i \in Lectures : run.stage[i] \in {"ok", "fail"}

\* The effect that starts populateAllLectures: it runs after every change of
\* `course`, and starts one detail task per lecture of the course it sees.
PopulateEffect(s) ==
    IF s.course # NoCourse /\ NumLectures > 0 /\ s.course.scripts[0] = NoScript
    THEN [s EXCEPT !.populateRuns =
             Append(@, [outline |-> s.course.outline,
                        stage |-> [i \in Lectures |-> "detail"]])]
    ELSE s

\* A handleGenerateCourse that forgets the poll timers without clearing
\* them.
HandleGenerateCourse_KeepsTimers(s) ==
    LET s1 == StopPlayback(s, TRUE)
    IN  [s1 EXCEPT !.audioDataCache = [i \in Lectures |-> NoData],
                   !.audioBufferCache = [i \in Lectures |-> NoBuffer],
                   !.lectureUiState = [i \in Lectures |-> "none"],
                   !.actualDurations = [i \in Lectures |-> 0],
                   !.pollingIntervals = [i \in Lectures |-> NoTimer],
                   !.videoStates = [i \in Lectures |-> "idle"],
                   !.isOutlining = TRUE,
                   !.outlineErrorToast = FALSE,
                   !.course = NoCourse,
                   !.generations = @ + 1,
                   !.outlineRequest = s.generations + 1]

\* handleGenerateCourse up to `await generateCourseOutline(...)`
HandleGenerateCourse(s) ==
    LET s1 == StopPlayback(s, TRUE)
    IN  [s1 EXCEPT !.audioDataCache = [i \in Lectures |-> NoData],
                   !.audioBufferCache = [i \in Lectures |-> NoBuffer],
                   !.lectureUiState = [i \in Lectures |-> "none"],
                   !.actualDurations = [i \in Lectures |-> 0],
                   !.timers = {t \in @ : \A i \in Lectures : s.pollingIntervals[i] # t.id},
                   !.pollingIntervals = [i \in Lectures |-> NoTimer],
                   !.videoStates = [i \in Lectures |-> "idle"],
                   !.isOutlining = TRUE,
                   !.outlineErrorToast = FALSE,
                   !.course = NoCourse,
                   !.generations = @ + 1,
                   !.outlineRequest = s.generations + 1]

\* handleGenerateCourse after the outline arrived: the course is installed
\* and every lecture is content-loading; the course changed, so the
\* populate effect runs.
OutlineArrived(s) ==
    PopulateEffect(
        [s EXCEPT !.course = [outline |-> s.outlineRequest,
                              scripts |-> [i \in Lectures |-> NoScript]],
                  !.lectureUiState = [i \in Lectures |-> "content-loading"],
                  !.isOutlining = FALSE,
                  !.outlineRequest = 0])

\* A catch path that adds the error toast and leaves the outlining flag set.
OutlineFailed_KeepsOutlining(s) ==
    [s EXCEPT !.outlineErrorToast = TRUE, !.outlineRequest = 0]

\* handleGenerateCourse when generateCourseOutline threw
OutlineFailed(s) ==
    [s EXCEPT !.outlineErrorToast = TRUE, !.isOutlining = FALSE, !.outlineRequest = 0]

\* The end of one task of run r: when every task of the run has settled,
\* Promise.all resolves and the 'course ready' toast is added.
TaskSettled(s, r, index, outcome) ==
    LET run == [s.populateRuns[r] EXCEPT !.stage[index] = outcome]
    IN  IF Settled(run)
        THEN [s EXCEPT !.populateRuns = RemoveAt(@, r),
                       !.readyToasts[run.outline] = @ + 1]
        ELSE [s EXCEPT !.populateRuns[r] = run]

\* A catch block that gives up the whole run: every lecture of the course is
\* marked error.
TaskFailed_FailsAll(s, r, index) ==
    TaskSettled([s EXCEPT !.lectureUiState = [i \in Lectures |-> "error"]], r, index, "fail")

\* The catch block of a populateAllLectures task
TaskFailed(s, r, index) ==
    TaskSettled([s EXCEPT !.lectureUiState[index] = "error"], r, index, "fail")

\* A populateAllLectures task after generateLectureDetails returned: the
\* details are merged into the current course, the state becomes loading
\* and the audio request is issued; the course changed, so the populate
\* effect runs.
DetailsArrived(s, r, index) ==
    LET details == [script |-> s.populateRuns[r].outline]
        merged == IF s.course = NoCourse THEN s.course
                  ELSE [s.course EXCEPT !.scripts[index] = details.script]
        s1 == [s EXCEPT !.course = merged,
                        !.lectureUiState[index] = "loading",
                        !.populateRuns[r].stage[index] = "audio"]
    IN  IF merged = NoCourse THEN s1 ELSE PopulateEffect(s1)

\* A populateAllLectures task that marks the lecture loaded without storing
\* the bytes it received.
AudioArrived_NoStore(s, r, index, wellFormed) ==
    TaskSettled([s EXCEPT !.lectureUiState[index] = "loaded"], r, index, "ok")

\* A populateAllLectures task after generateLectureAudio returned
AudioArrived(s, r, index, wellFormed) ==
    LET base64Audio == SynthBytes(s.populateRuns[r].outline, wellFormed)
    IN  TaskSettled([s EXCEPT !.audioDataCache[index] = base64Audio,
                              !.lectureUiState[index] = "loaded"], r, index, "ok")

\* generateSingleAudio after generateLectureAudio returned, then its caller
SingleAudioArrived(s, k, wellFormed) ==
    LET req == s.audioRequests[k]
        base64Audio == SynthBytes(req.script, wellFormed)
        s1 == [s EXCEPT !.audioRequests = RemoveAt(@, k),
                        !.audioDataCache[req.index] = base64Audio,
                        !.audioBufferCache[req.index] = NoBuffer,
                        !.lectureUiState[req.index] = "loaded"]
    IN  IF req.kind \in {"play", "retry"}
        THEN AfterAudio(s1, req.index, base64Audio)
        ELSE s1

\* generateSingleAudio when generateLectureAudio threw, then its caller
SingleAudioFailed(s, k) ==
    LET req == s.audioRequests[k]
        s1 == [s EXCEPT !.audioRequests = RemoveAt(@, k),
                        !.lectureUiState[req.index] = "error"]
    IN  IF req.kind \in {"play", "retry"}
        THEN AfterAudio(s1, req.index, NoData)
        ELSE s1

\* A handleUpdateLecture that, when the script changed, discards the caches
\* and the video states of every lecture.
HandleUpdateLecture_ClearsAll(s, index, script) ==
    IF s.course = NoCourse
    THEN s
    ELSE LET oldScript == s.course.scripts[index]
             s1 == [s EXCEPT !.course.scripts[index] = script]
             s2 == IF oldScript # script
                   THEN GenerateSingleAudio(
                            [s1 EXCEPT !.audioDataCache = [i \in Lectures |-> NoData],
                                       !.audioBufferCache = [i \in Lectures |-> NoBuffer],
                                       !.actualDurations = [i \in Lectures |-> 0],
                                       !.videoStates = [i \in Lectures |-> "idle"]],
                            script, index, "edit")
                   ELSE s1
         IN  PopulateEffect(s2)

\* handleUpdateLecture(index, updatedLecture); the course changed, so the
\* populate effect runs.
HandleUpdateLecture(s, index, script) ==
    IF s.course = NoCourse
    THEN s
    ELSE LET oldScript == s.course.scripts[index]
             s1 == [s EXCEPT !.course.scripts[index] = script]
             s2 == IF oldScript # script
                   THEN GenerateSingleAudio(
                            [s1 EXCEPT !.audioDataCache[index] = NoData,
                                       !.audioBufferCache[index] = NoBuffer,
                                       !.actualDurations[index] = 0,
                                       !.videoStates[index] = "idle"],
                            script, index, "edit")
                   ELSE s1
         IN  PopulateEffect(s2)

\* ------------------------------------------------------ the video poller
\* clearInterval(pollingIntervals.current[index]); delete the entry
ClearPolling(s, index) ==
    [s EXCEPT !.timers = {t \in @ : t.id # s.pollingIntervals[index]},
              !.pollingIntervals[index] = NoTimer]

\* A pollForVideo that registers the new interval without clearing the one
\* registered for the index.
PollForVideo_NoClear(s, index, gen) ==
    LET id == s.timerCount + 1
    IN  [s EXCEPT !.timerCount = id,
                  !.timers = @ \cup {[id |-> id, index |-> index, gen |-> gen]},
                  !.pollingIntervals[index] = id]

\* pollForVideo(operation, index): the timer registered for the index is
\* cleared and a new interval is registered; gen names the course
\* generation whose lecture the job was started for.
PollForVideo(s, index, gen) ==
    LET s1 == IF s.pollingIntervals[index] # NoTimer THEN ClearPolling(s, index) ELSE s
        id == s.timerCount + 1
    IN  [s1 EXCEPT !.timerCount = id,
                   !.timers = @ \cup {[id |-> id, index |-> index, gen |-> gen]},
                   !.pollingIntervals[index] = id]

\* generationLogic up to `await startVideoGeneration(...)`
GenerationLogic(s, index, gen) ==
    [s EXCEPT !.videoStates[index] = "generating",
              !.videoStarts = Append(@, [index |-> index, gen |-> gen])]

\* handleGenerateVideo(lecture, index, forceKeySelection); hasKey is the
\* answer of window.aistudio.hasSelectedApiKey().
HandleGenerateVideo(s, index, gen, forceKeySelection, hasKey) ==
    IF ~hasKey \/ forceKeySelection
    THEN [s EXCEPT !.pendingAction = [kind |-> "generationLogic", index |-> index,
                                      gen |-> gen],
                   !.isApiKeyModalOpen = TRUE]
    ELSE GenerationLogic(s, index, gen)

\* generationLogic after startVideoGeneration returned the operation
VideoStartArrived(s, k) ==
    LET req == s.videoStarts[k]
    IN  PollForVideo([s EXCEPT !.videoStarts = RemoveAt(@, k)], req.index, req.gen)

\* generationLogic when startVideoGeneration threw; keyInvalid: the message
\* says the API key is invalid.
VideoStartFailed(s, k, keyInvalid) ==
    LET req == s.videoStarts[k]
        s1 == [s EXCEPT !.videoStarts = RemoveAt(@, k)]
    IN  IF keyInvalid
        THEN [s1 EXCEPT !.pendingAction = [kind |-> "handleGenerateVideo",
                                           index |-> req.index, gen |-> req.gen],
                        !.isApiKeyModalOpen = TRUE]
        ELSE [s1 EXCEPT !.videoStates[req.index] = "error"]

\* An interval callback that clears its interval when it runs, so that a
\* job is asked for its status once.
PollTick_OneAttempt(s, t) ==
    [s EXCEPT !.statusChecks = Append(@, [index |-> t.index, gen |-> t.gen,
                                          timer |-> t.id]),
              !.timers = @ \ {t},
              !.pollingIntervals[t.index] = IF @ = t.id THEN NoTimer ELSE @]

\* The interval callback of timer t up to
\* `await getVideoOperationStatus(operation)`
PollTick(s, t) ==
    [s EXCEPT !.statusChecks = Append(@, [index |-> t.index, gen |-> t.gen,
                                          timer |-> t.id])]

\* An interval callback that, when the operation is done, sets the video
\* state and leaves its timer running.
StatusArrived_KeepsPolling(s, k, outcome, hasKey) ==
    LET req == s.statusChecks[k]
        s1 == [s EXCEPT !.statusChecks = RemoveAt(@, k)]
    IN  IF outcome = "pending" THEN s1
        ELSE IF outcome = "ready"
        THEN [s1 EXCEPT !.videoStates[req.index] = "ready"]
        ELSE LET s3 == [s1 EXCEPT !.videoStates[req.index] = "error"]
             IN  IF outcome = "keyInvalid"
                 THEN HandleGenerateVideo(s3, req.index, req.gen, TRUE, hasKey)
                 ELSE s3

\* The interval callback after getVideoOperationStatus resolved; outcome:
\* "pending" (not done), "ready" (done, with a download link), "failed"
\* (the call threw, or the job is done without a usable response) or
\* "keyInvalid" (it threw with the invalid-key message).
StatusArrived(s, k, outcome, hasKey) ==
    LET req == s.statusChecks[k]
        s1 == [s EXCEPT !.statusChecks = RemoveAt(@, k)]
    IN  IF outcome = "pending" THEN s1
        ELSE LET s2 == ClearPolling(s1, req.index)
             IN  IF outcome = "ready"
                 THEN [s2 EXCEPT !.videoStates[req.index] = "ready"]
                 ELSE LET s3 == [s2 EXCEPT !.videoStates[req.index] = "error"]
                      IN  IF outcome = "keyInvalid"
                          THEN HandleGenerateVideo(s3, req.index, req.gen, TRUE, hasKey)
                          ELSE s3

\* handleSelectApiKey; selected: window.aistudio.openSelectKey() resolved.
HandleSelectApiKey(s, selected, hasKey) ==
    LET s1 == [s EXCEPT !.isApiKeyModalOpen = FALSE, !.pendingAction = NoAction]
        act == s.pendingAction
    IN  IF ~selected \/ act = NoAction THEN s1
        ELSE IF act.kind = "generationLogic"
        THEN GenerationLogic(s1, act.index, act.gen)
        ELSE HandleGenerateVideo(s1, act.index, act.gen, TRUE, hasKey)

\* ------------------------------------------------- the full-course export
\* The end of handleDownloadAll (its finally block).
ExportDone(s) == [s EXCEPT !.exportTask = NoExport, !.isDownloadingAll = FALSE]

\* A handleDownloadAll that, when a wait times out, merges and downloads
\* the payloads collected so far.
ExportTimedOut_Partial(s, i, task) ==
    ExportDone([s EXCEPT !.exportError = [kind |-> "timeout", index |-> i],
                         !.downloads = Append(@, task.audioDatas)])

\* The wait of handleDownloadAll for lecture i rejects: the catch block adds
\* the toast 'Timed out waiting for audio: <title of lecture i>'.
ExportTimedOut(s, i, task) ==
    ExportDone([s EXCEPT !.exportError = [kind |-> "timeout", index |-> i]])

\* The loop of handleDownloadAll from lecture i on, with the payloads
\* collected so far in task.audioDatas: it runs until a lecture has to be
\* waited for, or to the merge and the download.  The generation states it
\* reads are those of the render in which the button was clicked.
RECURSIVE ExportLoop(_, _, _)
ExportLoop(s, i, task) ==
    IF i >= NumLectures
    THEN ExportDone([s EXCEPT !.downloads = Append(@, task.audioDatas)])
    ELSE LET audioData == s.audioDataCache[i]
         IN  IF audioData = NoData \/ task.uiState[i] # "loaded"
             THEN [s EXCEPT !.exportTask = [task EXCEPT !.active = TRUE, !.i = i,
                                                        !.attempts = 0]]
             ELSE ExportLoop(s, i + 1, [task EXCEPT !.audioDatas = Append(@, audioData)])

\* handleDownloadAll up to its first wait
HandleDownloadAll(s) ==
    IF s.course = NoCourse
    THEN s
    ELSE ExportLoop([s EXCEPT !.isDownloadingAll = TRUE, !.exportError = NoExportError],
                    0, [NoExport EXCEPT !.uiState = s.lectureUiState])

\* A wait of handleDownloadAll that, when it resolves, puts the waited
\* lecture's payload in front of the payloads collected so far.
ExportPoll_Prepends(s) ==
    LET task == s.exportTask
        i == task.i
    IN  IF s.audioDataCache[i] # NoData
        THEN ExportLoop(s, i + 1,
                        [task EXCEPT !.audioDatas = <<s.audioDataCache[i]>> \o @])
        ELSE IF task.attempts > ExportMaxAttempts
        THEN ExportTimedOut(s, i, task)
        ELSE [s EXCEPT !.exportTask.attempts = @ + 1]

\* One run of the interval callback of the wait, and, when the wait
\* resolves, the loop that follows it.
ExportPoll(s) ==
    LET task == s.exportTask
        i == task.i
    IN  IF s.audioDataCache[i] # NoData
        THEN ExportLoop(s, i + 1,
                        [task EXCEPT !.audioDatas = Append(@, s.audioDataCache[i])])
        ELSE IF task.attempts > ExportMaxAttempts
        THEN ExportTimedOut(s, i, task)
        ELSE [s EXCEPT !.exportTask.attempts = @ + 1]

\* ------------------------------------------------------------- WAV files
\* A base64 string is the sequence of its characters, each named by its
\* place in the base64 alphabet ('A' is 0, '/' is 63); '=' is Base64Pad.
Base64Pad == 64
\* The characters the payloads are drawn from: 'V' and '/'.
Base64Chars == {21, 63}

\* atob: the padding is dropped, every four characters give three bytes,
\* and a last group of two or three characters gives one or two.
RECURSIVE AtobGroups(_)
AtobGroups(d) ==
    IF Len(d) < 2 THEN <<>>
    ELSE LET b1 == d[1] * 4 + d[2] \div 16
         IN  IF Len(d) = 2 THEN <<b1>>
             ELSE LET b2 == (d[2] % 16) * 16 + d[3] \div 4
                  IN  IF Len(d) = 3 THEN <<b1, b2>>
                      ELSE <<b1, b2, (d[3] % 4) * 64 + d[4]>>
                               \o AtobGroups(SubSeq(d, 5, Len(d)))

Atob(base64) ==
    LET n == Len(base64)
        pads == IF n % 4 = 0 /\ n > 0 /\ base64[n] = Base64Pad
                THEN (IF base64[n - 1] = Base64Pad THEN 2 ELSE 1)
                ELSE 0
    IN  AtobGroups(SubSeq(base64, 1, n - pads))

\* decode: one byte per character of the binary string atob returns.
Decode(base64) ==
    LET binaryString == Atob(base64)
    IN  [i \in 1 .. Len(binaryString) |-> binaryString[i] % 256]

\* DataView.setUint32 / setUint16 with littleEndian = true, setUint8 over
\* the characters of a string, and Uint8Array.set: each writes bytes into
\* the buffer from a 0-based offset on.  setUint32 keeps the four low bytes
\* of the value and setUint16 the two low ones.
SetBytes(buffer, offset, bytes) ==
    [k \in 1 .. Len(buffer) |->
        IF k > offset /\ k <= offset + Len(bytes) THEN bytes[k - offset] ELSE buffer[k]]
SetUint32(buffer, offset, value) ==
    SetBytes(buffer, offset,
             [k \in 1 .. 4 |-> (value \div (256 ^ (k - 1))) % 256])
SetUint16(buffer, offset, value) ==
    SetBytes(buffer, offset,
             [k \in 1 .. 2 |-> ((value % (2 ^ 16)) \div (256 ^ (k - 1))) % 256])
WriteString(buffer, offset, string) == SetBytes(buffer, offset, string)

\* The character codes of 'RIFF', 'WAVE', 'fmt ' and 'data'.
RIFF == <<82, 73, 70, 70>>
WAVE == <<87, 65, 86, 69>>
FmtTag == <<102, 109, 116, 32>>
DataTag == <<100, 97, 116, 97>>

WavHeaderSize == 44
SampleRate == 24000
NumChannels == 1
BitsPerSample == 16

\* A pcmToWavBlob that writes the size of the whole file as chunkSize.
PcmToWavBlob_WholeFileSize(pcmData) ==
    LET dataSize == Len(pcmData)
        b0 == [k \in 1 .. (WavHeaderSize + dataSize) |-> 0]
        b1 == WriteString(b0, 0, RIFF)
        b2 == SetUint32(b1, 4, WavHeaderSize + dataSize)
        b3 == WriteString(b2, 8, WAVE)
        b4 == WriteString(b3, 12, FmtTag)
        b5 == SetUint32(b4, 16, 16)
        b6 == SetUint16(b5, 20, 1)
        b7 == SetUint16(b6, 22, NumChannels)
        b8 == SetUint32(b7, 24, SampleRate)
        b9 == SetUint32(b8, 28, SampleRate * NumChannels * (BitsPerSample \div 8))
        b10 == SetUint16(b9, 32, NumChannels * (BitsPerSample \div 8))
        b11 == SetUint16(b10, 34, BitsPerSample)
        b12 == WriteString(b11, 36, DataTag)
        b13 == SetUint32(b12, 40, dataSize)
    IN  SetBytes(b13, WavHeaderSize, pcmData)

\* pcmToWavBlob: the bytes of the Blob, written into a zeroed buffer in the
\* order of the code.
PcmToWavBlob(pcmData) ==
    LET dataSize == Len(pcmData)
        b0 == [k \in 1 .. (WavHeaderSize + dataSize) |-> 0]
        b1 == WriteString(b0, 0, RIFF)
        b2 == SetUint32(b1, 4, 36 + dataSize)
        b3 == WriteString(b2, 8, WAVE)
        b4 == WriteString(b3, 12, FmtTag)
        b5 == SetUint32(b4, 16, 16)
        b6 == SetUint16(b5, 20, 1)
        b7 == SetUint16(b6, 22, NumChannels)
        b8 == SetUint32(b7, 24, SampleRate)
        b9 == SetUint32(b8, 28, SampleRate * NumChannels * (BitsPerSample \div 8))
        b10 == SetUint16(b9, 32, NumChannels * (BitsPerSample \div 8))
        b11 == SetUint16(b10, 34, BitsPerSample)
        b12 == WriteString(b11, 36, DataTag)
        b13 == SetUint32(b12, 40, dataSize)
    IN  SetBytes(b13, WavHeaderSize, pcmData)

CreateWavBlob(base64) == PcmToWavBlob(Decode(base64))

\* The copy loop of createMergedWavBlob from chunk k on.
RECURSIVE CopyChunks(_, _, _, _)
CopyChunks(mergedPcm, pcmChunks, k, offset) ==
    IF k > Len(pcmChunks) THEN mergedPcm
    ELSE CopyChunks(SetBytes(mergedPcm, offset, pcmChunks[k]), pcmChunks, k + 1,
                    offset + Len(pcmChunks[k]))

RECURSIVE TotalLength(_, _)
TotalLength(pcmChunks, k) ==
    IF k > Len(pcmChunks) THEN 0 ELSE Len(pcmChunks[k]) + TotalLength(pcmChunks, k + 1)

\* A createMergedWavBlob that copies the chunks last to first.
CreateMergedWavBlob_Reversed(audios) ==
    LET pcmChunks == [k \in 1 .. Len(audios) |-> Decode(audios[Len(audios) + 1 - k])]
        mergedPcm == [k \in 1 .. TotalLength(pcmChunks, 1) |-> 0]
    IN  PcmToWavBlob(CopyChunks(mergedPcm, pcmChunks, 1, 0))

CreateMergedWavBlob(audios) ==
    LET pcmChunks == [k \in 1 .. Len(audios) |-> Decode(audios[k])]
        mergedPcm == [k \in 1 .. TotalLength(pcmChunks, 1) |-> 0]
    IN  PcmToWavBlob(CopyChunks(mergedPcm, pcmChunks, 1, 0))


\* ------------------------------------------------- decoding PCM bytes
\* Element k (0-based) of new Int16Array(data.buffer): the signed
\* little-endian 16-bit value of bytes 2k and 2k + 1.
Int16At(data, k) ==
    LET u == data[2 * k + 1] + 256 * data[2 * k + 2]
    IN  IF u >= 32768 THEN u - 65536 ELSE u

\* decodeAudioData(data, ctx, sampleRate, numChannels) over the bytes of
\* data.  new Int16Array(data.buffer) throws a RangeError when the byte
\* length is odd.  frameCount is dataInt16.length / numChannels, not
\* rounded; createBuffer converts it to an unsigned long, which drops the
\* fraction, and throws a NotSupportedError when the result is 0.  The loop
\* writes channelData[i] for i < frameCount; a write past the buffer's
\* length is ignored.  A sample is held as the 16-bit integer that the code
\* divides by 32768.
DecodeAudioDataBytes(data, numChannels) ==
    IF Len(data) % 2 # 0
    THEN [error |-> "RangeError", length |-> 0, channelData |-> <<>>]
    ELSE LET dataInt16Length == Len(data) \div 2
             length == dataInt16Length \div numChannels
         IN  IF length = 0
             THEN [error |-> "NotSupportedError", length |-> 0, channelData |-> <<>>]
             ELSE [error |-> "none", length |-> length,
                   channelData |->
                       [channel \in 1 .. numChannels |->
                           [i \in 1 .. length |->
                               Int16At(data, (i - 1) * numChannels + (channel - 1))]]]

\* ----------------------------------------------------------------- actions
WithinBounds(s) ==
    /\ Len(s.detached) <= MaxDetached
    /\ Len(s.populateRuns) <= MaxRuns
    /\ Len(s.audioRequests) <= MaxAudioReqs
    /\ s.playbackPausedTimeRef <= MaxOffset
    /\ \A g \in Outlines : s.readyToasts[g] <= MaxToasts
    /\ s.timerCount <= MaxTimers
    /\ Len(s.videoStarts) <= MaxVideoReqs
    /\ Len(s.statusChecks) <= MaxChecks
    /\ Len(s.downloads) <= MaxDownloads

Step(s) == WithinBounds(s) /\ Commit(s)

\* React runs the effects of a state change before it handles the next user
\* event: no click is handled while the auto-advance effect has a recorded
\* index to act on; and the API key modal, while open, covers the page.
Rendered == ~(lastPlayedIndex # NoIndex /\ course # NoCourse) /\ ~isApiKeyModalOpen

\* The first click on the page creates the AudioContext and the gain node.
InitializeAudio ==
    /\ ~audioContextRef
    /\ Step([Cur EXCEPT !.audioContextRef = TRUE])

\* The hardware clock advances; a node that has reached the end of its
\* buffer stops sounding at that instant, so it ends before the next tick.
Playing(n) == n.status = "playing"
AtEnd(n, t) == Playing(n) /\ NodePosition(n, t) >= Dur
AllNodes == {currentSourceRef} \cup {detached[k] : k \in 1 .. Len(detached)}

Tick ==
    /\ audioContextRef
    /\ ctxTime < MaxTime
    /\ \A n \in AllNodes : ~AtEnd(n, ctxTime)
    /\ Step([Cur EXCEPT !.ctxTime = @ + 1])

\* The node currentSourceRef references plays its buffer to the end.
NaturalEnd ==
    /\ AtEnd(currentSourceRef, ctxTime)
    /\ Step([Cur EXCEPT !.currentSourceRef =
                 [@ EXCEPT !.status = "finished", !.pending = TRUE]])

\* The queued 'ended' event of the referenced node is dispatched.
DispatchEnded ==
    /\ currentSourceRef.pending
    /\ LET n == currentSourceRef
           s1 == [Cur EXCEPT !.currentSourceRef = [@ EXCEPT !.pending = FALSE]]
       IN  Step(IF n.onended THEN OnEnded(s1, n, TRUE) ELSE s1)

\* The queued 'ended' event of a node no longer referenced is dispatched.
DispatchEndedDetached ==
    \E k \in 1 .. Len(detached) :
        /\ detached[k].pending
        /\ LET n == detached[k]
               s1 == [Cur EXCEPT !.detached = RemoveAt(@, k)]
           IN  Step(IF n.onended THEN OnEnded(s1, n, FALSE) ELSE s1)

\* The lecture row's play button (enabled with content, outside
\* content-loading and loading; a no-op in the error state).
ClickLecture ==
    \E i \in Lectures :
        /\ Rendered
        /\ HasContent(Cur, i)
        /\ lectureUiState[i] \notin {"content-loading", "loading", "error"}
        /\ Step(HandleSetLectureToPlay(Cur, course.scripts[i], i))

\* The player's play/pause button (shown when the session has no error).
ClickPlayPause ==
    /\ Rendered
    /\ currentlyPlaying # NoLecture
    /\ playerState.error = NoError
    /\ Step(HandleSetLectureToPlay(Cur, currentlyPlaying.script, currentlyPlaying.index))

\* The player's close button.
ClickClose ==
    /\ Rendered
    /\ currentlyPlaying # NoLecture
    /\ Step(StopPlayback(Cur, TRUE))

\* The values the player's mute button sets: muted and full volume.
VolumeLevels == {0, 1}

\* The player's mute button (shown when the session has no error).
VolumeChange ==
    \E newVolume \in VolumeLevels :
        /\ Rendered
        /\ currentlyPlaying # NoLecture
        /\ playerState.error = NoError
        /\ Step(HandleVolumeChange(Cur, newVolume))

\* The player's seek bar (shown when the session has no error).
Seek ==
    \E f \in SeekFractions :
        /\ Rendered
        /\ currentlyPlaying # NoLecture
        /\ playerState.error = NoError
        /\ Step(HandleSeek(Cur, f))

\* The player's retry button (shown with an error, enabled when not loading).
ClickRetry ==
    /\ Rendered
    /\ currentlyPlaying # NoLecture
    /\ playerState.error # NoError
    /\ ~playerState.isLoading
    /\ Step(HandleRetryAudioGeneration(Cur))

\* requestAnimationFrame(updateProgress)
ProgressFrame ==
    /\ playerState.isPlaying
    /\ currentSourceRef # NoNode
    /\ audioContextRef
    /\ Step(UpdateProgress(Cur))

AutoAdvance ==
    /\ lastPlayedIndex # NoIndex
    /\ course # NoCourse
    /\ Step(AutoAdvanceEffect(Cur))

GenerateCourse ==
    /\ Rendered
    /\ audioContextRef
    /\ ~isOutlining
    /\ generations < MaxGen
    /\ Step(HandleGenerateCourse(Cur))

OutlineSucceeds ==
    /\ outlineRequest # 0
    /\ Step(OutlineArrived(Cur))

OutlineFails ==
    /\ outlineRequest # 0
    /\ Step(OutlineFailed(Cur))

DetailSucceeds ==
    \E r \in 1 .. Len(populateRuns), i \in Lectures :
        /\ populateRuns[r].stage[i] = "detail"
        /\ Step(DetailsArrived(Cur, r, i))

DetailFails ==
    \E r \in 1 .. Len(populateRuns), i \in Lectures :
        /\ populateRuns[r].stage[i] = "detail"
        /\ Step(TaskFailed(Cur, r, i))

AudioSucceeds ==
    \E r \in 1 .. Len(populateRuns), i \in Lectures :
        /\ populateRuns[r].stage[i] = "audio"
        /\ \E wellFormed \in BOOLEAN : Step(AudioArrived(Cur, r, i, wellFormed))

AudioFails ==
    \E r \in 1 .. Len(populateRuns), i \in Lectures :
        /\ populateRuns[r].stage[i] = "audio"
        /\ Step(TaskFailed(Cur, r, i))

SingleAudioSucceeds ==
    \E k \in 1 .. Len(audioRequests), wellFormed \in BOOLEAN :
        Step(SingleAudioArrived(Cur, k, wellFormed))

SingleAudioFails ==
    \E k \in 1 .. Len(audioRequests) : Step(SingleAudioFailed(Cur, k))

\* The edit modal's save button (the edit button needs content): the script
\* is saved as it was, or as one the editor typed.
SaveEdit ==
    \E i \in Lectures : \E script \in EditScripts \cup {course.scripts[i]} :
        /\ Rendered
        /\ HasContent(Cur, i)
        /\ Step(HandleUpdateLecture(Cur, i, script))

\* The lecture row's Generate Video button (video idle) and its Retry
\* button (video error, which forces key selection).
ClickGenerateVideo ==
    \E i \in Lectures, hasKey \in BOOLEAN :
        /\ Rendered
        /\ HasContent(Cur, i)
        /\ videoStates[i] \in {"idle", "error"}
        /\ Step(HandleGenerateVideo(Cur, i, generations, videoStates[i] = "error", hasKey))

VideoStartSucceeds ==
    \E k \in 1 .. Len(videoStarts) : Step(VideoStartArrived(Cur, k))

VideoStartFails ==
    \E k \in 1 .. Len(videoStarts), keyInvalid \in BOOLEAN :
        Step(VideoStartFailed(Cur, k, keyInvalid))

\* A running interval fires.
PollTimerFires ==
    \E t \in timers : Step(PollTick(Cur, t))

VideoStatusArrives ==
    \E k \in 1 .. Len(statusChecks), outcome \in {"pending", "ready", "failed", "keyInvalid"},
       hasKey \in BOOLEAN :
        Step(StatusArrived(Cur, k, outcome, hasKey))

\* The API key modal's Select Key button.
SelectApiKey ==
    \E selected \in BOOLEAN, hasKey \in BOOLEAN :
        /\ isApiKeyModalOpen
        /\ Step(HandleSelectApiKey(Cur, selected, hasKey))

\* The API key modal's close button and backdrop.
CloseApiKeyModal ==
    /\ isApiKeyModalOpen
    /\ Step([Cur EXCEPT !.isApiKeyModalOpen = FALSE, !.pendingAction = NoAction])

\* The Download Full Course Audio button (disabled while exporting).
ClickDownloadAll ==
    /\ Rendered
    /\ course # NoCourse
    /\ ~isDownloadingAll
    /\ Step(HandleDownloadAll(Cur))

\* The one-second interval of a wait of handleDownloadAll fires.
ExportTimerFires ==
    /\ exportTask.active
    /\ Step(ExportPoll(Cur))

\* downloadWav: the WAV file of one payload.
DownloadWav ==
    \E k \in 1 .. Len(base64Audios) :
        Step([Cur EXCEPT !.wavBlob = [kind |-> "single", index |-> k,
                                      bytes |-> CreateWavBlob(base64Audios[k])]])

\* The merged WAV file of all the payloads, as handleDownloadAll builds it.
DownloadMergedWav ==
    Step([Cur EXCEPT !.wavBlob = [kind |-> "merged", index |-> NoIndex,
                                  bytes |-> CreateMergedWavBlob(base64Audios)]])

\* The byte values the PCM inputs are drawn from: the low and the high end
\* of both halves of the byte range.
PcmBytes == {0, 1, 128, 255}
\* The Uint8Arrays of up to MaxPcmBytes bytes.
PcmInputs == UNION {[1 .. n -> PcmBytes] : n \in 0 .. MaxPcmBytes}

\* One call of decodeAudioData; the function keeps nothing between calls,
\* so a behaviour makes one.
DecodeAudio ==
    \E data \in PcmInputs, numChannels \in 1 .. MaxChannels :
        /\ decodedAudio = NoDecoded
        /\ Step([Cur EXCEPT !.decodedAudio =
                 [data |-> data, numChannels |-> numChannels,
                  buffer |-> DecodeAudioDataBytes(data, numChannels)]])

Next ==
    \/ InitializeAudio
    \/ Tick
    \/ NaturalEnd
    \/ DispatchEnded
    \/ DispatchEndedDetached
    \/ ClickLecture
    \/ ClickPlayPause
    \/ ClickClose
    \/ Seek
    \/ ClickRetry
    \/ ProgressFrame
    \/ AutoAdvance
    \/ GenerateCourse
    \/ OutlineSucceeds
    \/ OutlineFails
    \/ DetailSucceeds
    \/ DetailFails
    \/ AudioSucceeds
    \/ AudioFails
    \/ SingleAudioSucceeds
    \/ SingleAudioFails
    \/ SaveEdit
    \/ ClickGenerateVideo
    \/ VideoStartSucceeds
    \/ VideoStartFails
    \/ PollTimerFires
    \/ VideoStatusArrives
    \/ SelectApiKey
    \/ CloseApiKeyModal
    \/ ClickDownloadAll
    \/ ExportTimerFires
    \/ DownloadWav
    \/ DownloadMergedWav
    \/ DecodeAudio
    \/ VolumeChange

Spec == Init /\ [][Next]_vars

\* ------------------------------------------------ playback over a course
\* A course whose pipeline has finished: every lecture is loaded with its
\* payload cached (one that decodes, or one that does not), or in error
\* after its audio request failed (script, no payload), or, past the first
\* lecture, in error after its detail request failed (no script, no payload).
PipelineOutcomes == {"loaded", "loaded-malformed", "audio-failed", "detail-failed"}
IsLoaded(outcome) == outcome \in {"loaded", "loaded-malformed"}

InitPlay ==
    \E outcome \in [Lectures -> PipelineOutcomes] :
        /\ outcome[0] # "detail-failed"
        /\ audioContextRef = TRUE
        /\ ctxTime = 0
        /\ currentSourceRef = NoNode
        /\ detached = <<>>
        /\ intentionallyStoppedRef = TRUE
        /\ playbackStartTimeRef = 0
        /\ playbackPausedTimeRef = 0
        /\ currentlyPlaying = NoLecture
        /\ playerState = InitialPlayerState
        /\ lastPlayedIndex = NoIndex
        /\ course = [outline |-> 1,
                     scripts |-> [i \in Lectures |->
                         IF outcome[i] = "detail-failed" THEN NoScript ELSE 1]]
        /\ lectureUiState = [i \in Lectures |->
                                IF IsLoaded(outcome[i]) THEN "loaded" ELSE "error"]
        /\ audioDataCache = [i \in Lectures |->
                                IF IsLoaded(outcome[i])
                                THEN SynthBytes(1, outcome[i] = "loaded") ELSE NoData]
        /\ audioBufferCache = [i \in Lectures |-> NoBuffer]
        /\ actualDurations = [i \in Lectures |-> 0]
        /\ isOutlining = FALSE
        /\ outlineRequest = 0
        /\ generations = 1
        /\ populateRuns = <<>>
        /\ audioRequests = <<>>
        /\ readyToasts = [g \in Outlines |-> IF g = 1 THEN 1 ELSE 0]
        /\ videoStates = [i \in Lectures |-> "idle"]
        /\ pollingIntervals = [i \in Lectures |-> NoTimer]
        /\ timers = {}
        /\ timerCount = 0
        /\ videoStarts = <<>>
        /\ statusChecks = <<>>
        /\ isApiKeyModalOpen = FALSE
        /\ pendingAction = NoAction
        /\ isDownloadingAll = FALSE
        /\ exportTask = NoExport
        /\ exportError = NoExportError
        /\ outlineErrorToast = FALSE
        /\ downloads = <<>>
        /\ base64Audios = <<>>
        /\ wavBlob = NoBlob
        /\ decodedAudio = NoDecoded

NextPlay ==
    \/ Tick
    \/ NaturalEnd
    \/ DispatchEnded
    \/ DispatchEndedDetached
    \/ ClickLecture
    \/ ClickPlayPause
    \/ ClickClose
    \/ Seek
    \/ ClickRetry
    \/ ProgressFrame
    \/ AutoAdvance
    \/ SingleAudioSucceeds
    \/ SingleAudioFails
    \/ GenerateCourse

SpecPlay == InitPlay /\ [][NextPlay]_vars

NextPipeline ==
    \/ InitializeAudio
    \/ GenerateCourse
    \/ OutlineSucceeds
    \/ OutlineFails
    \/ DetailSucceeds
    \/ DetailFails
    \/ AudioSucceeds
    \/ AudioFails

SpecPipeline == Init /\ [][NextPipeline]_vars

\* ------------------------------------------- video jobs over a course
\* A course whose pipeline has finished with every lecture loaded.
InitVideo ==
    /\ InitPlay
    /\ \A i \in Lectures : lectureUiState[i] = "loaded" /\ Decodable(audioDataCache[i])

NextVideo ==
    \/ ClickGenerateVideo
    \/ VideoStartSucceeds
    \/ VideoStartFails
    \/ PollTimerFires
    \/ VideoStatusArrives
    \/ SelectApiKey
    \/ CloseApiKeyModal
    \/ GenerateCourse
    \/ OutlineSucceeds
    \/ OutlineFails
    \/ DetailSucceeds

SpecVideo == InitVideo /\ [][NextVideo]_vars

\* ------------------------------------------------ editing over a course
NextEdit ==
    \/ ClickLecture
    \/ ClickClose
    \/ SaveEdit
    \/ SingleAudioSucceeds
    \/ SingleAudioFails
    \/ ClickGenerateVideo
    \/ VideoStartSucceeds
    \/ VideoStartFails
    \/ SelectApiKey
    \/ CloseApiKeyModal

SpecEdit == InitVideo /\ [][NextEdit]_vars

\* ------------------------------------------- export over a pipeline
\* The first course while its populateAllLectures run is in flight: the
\* details of lecture 0 have been merged and its audio is being synthesized,
\* every other lecture is content-loading.
InitExport ==
    /\ audioContextRef = TRUE
    /\ ctxTime = 0
    /\ currentSourceRef = NoNode
    /\ detached = <<>>
    /\ intentionallyStoppedRef = TRUE
    /\ playbackStartTimeRef = 0
    /\ playbackPausedTimeRef = 0
    /\ currentlyPlaying = NoLecture
    /\ playerState = InitialPlayerState
    /\ lastPlayedIndex = NoIndex
    /\ course = [outline |-> 1,
                 scripts |-> [i \in Lectures |-> IF i = 0 THEN 1 ELSE NoScript]]
    /\ lectureUiState = [i \in Lectures |->
                            IF i = 0 THEN "loading" ELSE "content-loading"]
    /\ audioDataCache = [i \in Lectures |-> NoData]
    /\ audioBufferCache = [i \in Lectures |-> NoBuffer]
    /\ actualDurations = [i \in Lectures |-> 0]
    /\ isOutlining = FALSE
    /\ outlineRequest = 0
    /\ generations = 1
    /\ populateRuns = <<[outline |-> 1,
                          stage |-> [i \in Lectures |->
                                        IF i = 0 THEN "audio" ELSE "detail"]]>>
    /\ audioRequests = <<>>
    /\ readyToasts = [g \in Outlines |-> 0]
    /\ videoStates = [i \in Lectures |-> "idle"]
    /\ pollingIntervals = [i \in Lectures |-> NoTimer]
    /\ timers = {}
    /\ timerCount = 0
    /\ videoStarts = <<>>
    /\ statusChecks = <<>>
    /\ isApiKeyModalOpen = FALSE
    /\ pendingAction = NoAction
    /\ isDownloadingAll = FALSE
    /\ exportTask = NoExport
    /\ exportError = NoExportError
    /\ outlineErrorToast = FALSE
    /\ downloads = <<>>
    /\ base64Audios = <<>>
    /\ wavBlob = NoBlob
    /\ decodedAudio = NoDecoded

NextExport ==
    \/ DetailSucceeds
    \/ DetailFails
    \/ AudioSucceeds
    \/ AudioFails
    \/ ClickDownloadAll
    \/ ExportTimerFires

SpecExport == InitExport /\ [][NextExport]_vars

\* ------------------------------------------------------------ WAV export
\* The base64 strings of up to `quads` groups of four characters, the last
\* group padded or not.
RECURSIVE Base64Strings(_)
Base64Strings(quads) ==
    IF quads = 0 THEN {<<>>}
    ELSE LET shorter == Base64Strings(quads - 1)
             full == {s \in shorter : Len(s) = 4 * (quads - 1)
                                      /\ (s = <<>> \/ s[Len(s)] # Base64Pad)}
         IN  shorter
             \cup {s \o <<a, b, c, d>> : s \in full, a \in Base64Chars, b \in Base64Chars,
                                         c \in Base64Chars, d \in Base64Chars}
             \cup {s \o <<a, b, c, Base64Pad>> : s \in full, a \in Base64Chars,
                                                 b \in Base64Chars, c \in Base64Chars}
             \cup {s \o <<a, b, Base64Pad, Base64Pad>> : s \in full, a \in Base64Chars,
                                                         b \in Base64Chars}

\* The lists of at most n members of S.
RECURSIVE Lists(_, _)
Lists(S, n) ==
    IF n = 0 THEN {<<>>}
    ELSE LET shorter == Lists(S, n - 1)
         IN  shorter \cup {Append(l, x) : l \in {m \in shorter : Len(m) = n - 1}, x \in S}

\* The conversions applied to any payloads the service can have returned.
InitWav ==
    /\ base64Audios \in Lists(Base64Strings(MaxQuads), MaxChunks)
    /\ wavBlob = NoBlob
    /\ decodedAudio = NoDecoded
    /\ audioContextRef = FALSE
    /\ ctxTime = 0
    /\ currentSourceRef = NoNode
    /\ detached = <<>>
    /\ intentionallyStoppedRef = FALSE
    /\ playbackStartTimeRef = 0
    /\ playbackPausedTimeRef = 0
    /\ currentlyPlaying = NoLecture
    /\ playerState = InitialPlayerState
    /\ lastPlayedIndex = NoIndex
    /\ course = NoCourse
    /\ lectureUiState = [i \in Lectures |-> "none"]
    /\ audioDataCache = [i \in Lectures |-> NoData]
    /\ audioBufferCache = [i \in Lectures |-> NoBuffer]
    /\ actualDurations = [i \in Lectures |-> 0]
    /\ isOutlining = FALSE
    /\ outlineRequest = 0
    /\ generations = 0
    /\ populateRuns = <<>>
    /\ audioRequests = <<>>
    /\ readyToasts = [g \in Outlines |-> 0]
    /\ videoStates = [i \in Lectures |-> "idle"]
    /\ pollingIntervals = [i \in Lectures |-> NoTimer]
    /\ timers = {}
    /\ timerCount = 0
    /\ videoStarts = <<>>
    /\ statusChecks = <<>>
    /\ isApiKeyModalOpen = FALSE
    /\ pendingAction = NoAction
    /\ isDownloadingAll = FALSE
    /\ exportTask = NoExport
    /\ exportError = NoExportError
    /\ outlineErrorToast = FALSE
    /\ downloads = <<>>

NextWav ==
    \/ DownloadWav
    \/ DownloadMergedWav

SpecWav == InitWav /\ [][NextWav]_vars

\* ------------------------------------------------ seeking while editing
\* Playback of a loaded course with the seek bar and the edit modal.
NextSeek ==
    \/ ClickLecture
    \/ ClickPlayPause
    \/ Seek
    \/ SaveEdit
    \/ SingleAudioSucceeds
    \/ Tick

SpecSeek == InitVideo /\ [][NextSeek]_vars

\* ------------------------------------------- the caches under the pipeline
\* A course whose pipeline is still running, with its lectures played and
\* edited meanwhile.
NextCache ==
    \/ DetailSucceeds
    \/ AudioSucceeds
    \/ SaveEdit
    \/ SingleAudioSucceeds
    \/ ClickLecture
    \/ ClickClose

SpecCache == InitExport /\ [][NextCache]_vars

\* ------------------------------------------ edits while details are pending
\* A course from its generation on, with the lectures that have their
\* details edited while the details of others are pending or have failed.
NextEarlyEdit ==
    \/ InitializeAudio
    \/ GenerateCourse
    \/ OutlineSucceeds
    \/ DetailSucceeds
    \/ DetailFails
    \/ SaveEdit
    \/ SingleAudioSucceeds

SpecEarlyEdit == Init /\ [][NextEarlyEdit]_vars

\* ------------------------------------- regeneration over playback and video
\* A loaded course that is played and has videos generated, and is then
\* generated anew.
NextRegenerate ==
    \/ ClickLecture
    \/ ClickGenerateVideo
    \/ VideoStartSucceeds
    \/ PollTimerFires
    \/ VideoStatusArrives
    \/ GenerateCourse

SpecRegenerate == InitVideo /\ [][NextRegenerate]_vars

\* ------------------------------------------- the credential gate
\* Video jobs over a loaded course that is not generated anew: jobs are
\* started, polled and retried, and the API key modal is completed or
\* dismissed.
NextGate ==
    \/ ClickGenerateVideo
    \/ VideoStartSucceeds
    \/ VideoStartFails
    \/ PollTimerFires
    \/ VideoStatusArrives
    \/ SelectApiKey
    \/ CloseApiKeyModal

SpecGate == InitVideo /\ [][NextGate]_vars

\* ------------------------------------------- the byte cache's writers
\* Everything that writes the byte cache or a generation state: the
\* pipeline's tasks, script edits and their synthesis, retries from the
\* player, and a new course generation, over a course whose pipeline is in
\* flight.
NextLoaded ==
    \/ DetailSucceeds
    \/ AudioSucceeds
    \/ AudioFails
    \/ SaveEdit
    \/ SingleAudioSucceeds
    \/ SingleAudioFails
    \/ GenerateCourse
    \/ OutlineSucceeds

SpecLoaded == InitExport /\ [][NextLoaded]_vars

\* ------------------------------------------------------- PCM decoding
\* decodeAudioData applied to every input of up to MaxPcmBytes bytes and
\* up to MaxChannels channels.
NextDecode == DecodeAudio

SpecDecode == Init /\ [][NextDecode]_vars

\* ------------------------------------------- stopping over playback
\* A loaded course that is played, paused, closed, muted and left to play
\* to its end.
NextStop ==
    \/ Tick
    \/ NaturalEnd
    \/ DispatchEnded
    \/ DispatchEndedDetached
    \/ ClickLecture
    \/ ClickPlayPause
    \/ ClickClose
    \/ ProgressFrame
    \/ AutoAdvance
    \/ VolumeChange

SpecStop == InitVideo /\ [][NextStop]_vars

\* ------------------------------------------- polling to the end
\* The interval of lecture i fires, and a status check of lecture i resolves
\* with the operation done or with a failure.
PollTimerFiresFor(i) ==
    \E t \in timers : t.index = i /\ Step(PollTick(Cur, t))

StatusSettlesFor(i) ==
    \E k \in 1 .. Len(statusChecks), outcome \in {"ready", "failed", "keyInvalid"},
       hasKey \in BOOLEAN :
        /\ statusChecks[k].index = i
        /\ Step(StatusArrived(Cur, k, outcome, hasKey))

\* SpecGate with the scheduling of setInterval, whose callback keeps running
\* every 10 seconds while the interval is registered, and with an operation
\* that does not report not-done for ever: of the status checks made for a
\* lecture, one eventually reports done or fails.
SpecGateFair ==
    /\ SpecGate
    /\ \A i \in Lectures : SF_vars(PollTimerFiresFor(i)) /\ SF_vars(StatusSettlesFor(i))

\* ------------------------------------------------------------------ claims
PlayingNodes ==
    (IF Playing(currentSourceRef) THEN 1 ELSE 0)
    + Cardinality({k \in 1 .. Len(detached) : Playing(detached[k])})

\* C1: in every reachable state at most one source node is sounding, and a
\* node that is no longer referenced has been stopped (startPlayback stops
\* the previous node before the new one starts).
C1_AtMostOneActiveSource == PlayingNodes <= 1

\* A new node plays while the 'ended' event of the node it replaced, stopped
\* by startPlayback, is still queued.
C1_Witness ==
    /\ Playing(currentSourceRef)
    /\ \E k \in 1 .. Len(detached) : detached[k].status = "stopped"

\* C2: a finished lecture index is recorded only by the 'ended' event of the
\* referenced node after it played its buffer to the end; no step records
\* one for a node that was stopped (pause, switch, seek, close, regeneration),
\* so the auto-advance effect, which acts only on a recorded index, never
\* selects a lecture after an intentional stop.
C2_AdvanceOnlyOnNaturalEnd ==
    [][(lastPlayedIndex' # NoIndex /\ lastPlayedIndex' # lastPlayedIndex)
         => /\ currentSourceRef.status = "finished"
            /\ currentSourceRef.pending
            /\ lastPlayedIndex' = currentSourceRef.index]_vars

\* A lecture is current, the 'ended' event of a stopped node is queued and
\* no finished index is recorded.
C2_Witness ==
    /\ currentlyPlaying # NoLecture
    /\ lastPlayedIndex = NoIndex
    /\ \E k \in 1 .. Len(detached) : detached[k].status = "stopped" /\ detached[k].pending

\* The request, if any, of the given kind for the given index that is in flight.
InFlight(reqs, kind, index) ==
    \E k \in 1 .. Len(reqs) : reqs[k].kind = kind /\ reqs[k].index = index

\* C3: when the auto-advance effect acts on finished lecture i and i+1
\* exists, lecture i+1 is the current lecture afterwards, and either its
\* node is playing or, its audio being absent or in error, a synthesis
\* request for i+1 is in flight; and when a synthesis request made by a
\* selection succeeds, the node of that lecture plays from offset 0.
C3_AutoAdvanceStartsNext ==
    [][/\ (AutoAdvance /\ lastPlayedIndex + 1 < NumLectures)
          => LET next == lastPlayedIndex + 1
             IN  /\ currentlyPlaying'.index = next
                 /\ IF audioDataCache[next] = NoData \/ lectureUiState[next] = "error"
                    THEN InFlight(audioRequests', "play", next)
                    ELSE Decodable(audioDataCache[next])
                         => Playing(currentSourceRef') /\ currentSourceRef'.index = next
       /\ \A k \in 1 .. Len(audioRequests) :
             (audioRequests[k].kind = "play"
              /\ Step(SingleAudioArrived(Cur, k, TRUE)))
             => /\ Playing(currentSourceRef')
                /\ currentSourceRef'.index = audioRequests[k].index
                /\ currentSourceRef'.offset = 0
                /\ playerState'.isPlaying]_vars

\* C4: when the auto-advance effect acts on the finished last lecture, the
\* session is cleared: no current lecture, no referenced node, nothing
\* sounding, isPlaying false, progress 0, currentTime 0, and the step issues
\* no synthesis request.
C4_LastLectureClearsSession ==
    [][(AutoAdvance /\ lastPlayedIndex = NumLectures - 1)
         => /\ currentlyPlaying' = NoLecture
            /\ currentSourceRef' = NoNode
            /\ PlayingNodes' = 0
            /\ ~playerState'.isPlaying
            /\ playerState'.progress = 0
            /\ playerState'.currentTime = 0
            /\ audioRequests' = audioRequests
            /\ lastPlayedIndex' = NoIndex]_vars

\* The last lecture has played to its end, its index is recorded and the
\* auto-advance effect is about to act on it.
C4_Witness ==
    /\ lastPlayedIndex = NumLectures - 1
    /\ course # NoCourse
    /\ currentlyPlaying.index = NumLectures - 1
    /\ currentSourceRef.status = "finished"

\* C5: when the play/pause button resumes a paused lecture whose stored
\* pause position is T, the progress frames that follow report T plus the
\* clock time e elapsed since the resume, for every e before the end of
\* the buffer (so the first frame reports T itself: no jump).
C5_ProgressContinuesFromPause ==
    [][(ClickPlayPause /\ ~playerState.isPlaying /\ Playing(currentSourceRef'))
         => LET T == playbackPausedTimeRef
            IN  \A e \in 0 .. Dur :
                    (T + e < playerState'.duration)
                    => UpdateProgress([Cur' EXCEPT !.ctxTime = @ + e]).playerState.currentTime
                         = T + e]_vars

\* A task of a populateAllLectures run, or a generateSingleAudio call, that
\* was started before the latest handleGenerateCourse.
StaleRun(r) == populateRuns[r].outline < generations
StaleRequest(k) == audioRequests[k].gen < generations

\* The state of the course a stale task must leave alone.
CourseStateUnchanged ==
    /\ course' = course
    /\ audioDataCache' = audioDataCache
    /\ lectureUiState' = lectureUiState

\* C6: a step in which a detail or audio task of a run started for an
\* earlier course generation resolves (with a result or a failure), or in
\* which a generateSingleAudio call made for an earlier generation
\* resolves, changes neither the course, nor the byte cache, nor any
\* lecture's generation state.
C6_StaleTasksChangeNothing ==
    [][/\ \A r \in 1 .. Len(populateRuns), i \in Lectures :
             (/\ StaleRun(r)
              /\ \/ populateRuns[r].stage[i] = "detail" /\ Step(DetailsArrived(Cur, r, i))
                 \/ populateRuns[r].stage[i] \in {"detail", "audio"}
                    /\ Step(TaskFailed(Cur, r, i))
                 \/ populateRuns[r].stage[i] = "audio"
                    /\ \E wellFormed \in BOOLEAN : Step(AudioArrived(Cur, r, i, wellFormed)))
             => CourseStateUnchanged
       /\ \A k \in 1 .. Len(audioRequests) :
             (/\ StaleRequest(k)
              /\ \/ Step(SingleAudioFailed(Cur, k))
                 \/ \E wellFormed \in BOOLEAN : Step(SingleAudioArrived(Cur, k, wellFormed)))
             => CourseStateUnchanged]_vars

\* A video start request or status check made for an earlier course generation.
StaleStart(k) == videoStarts[k].gen < generations
StaleCheck(k) == statusChecks[k].gen < generations

VideoStateUnchanged ==
    /\ timers' = timers
    /\ pollingIntervals' = pollingIntervals
    /\ videoStates' = videoStates

\* C7: handleGenerateCourse leaves no registered poll timer running, and a
\* step in which a video start request or a status check made for an
\* earlier course generation resolves creates no timer and sets no video
\* state.
C7_StaleVideoChangesNothing ==
    [][/\ GenerateCourse
          => \A t \in timers : \A i \in Lectures :
                 pollingIntervals[i] = t.id => t \notin timers'
       /\ \A k \in 1 .. Len(videoStarts) :
             (/\ StaleStart(k)
              /\ \/ Step(VideoStartArrived(Cur, k))
                 \/ \E keyInvalid \in BOOLEAN : Step(VideoStartFailed(Cur, k, keyInvalid)))
             => VideoStateUnchanged
       /\ \A k \in 1 .. Len(statusChecks) :
             (/\ StaleCheck(k)
              /\ \E outcome \in {"pending", "ready", "failed", "keyInvalid"},
                    hasKey \in BOOLEAN : Step(StatusArrived(Cur, k, outcome, hasKey)))
             => VideoStateUnchanged]_vars

\* C8: a save that changes lecture i's script empties lecture i's entries
\* of the byte cache and of the buffer cache, and for every other lecture
\* the cached bytes, the decoded buffer, the generation state and the
\* video state are what they were before the save.
C8_EditInvalidatesOnlyEditedLecture ==
    [][\A i \in Lectures, script \in EditScripts :
         (/\ Rendered
          /\ HasContent(Cur, i)
          /\ script # course.scripts[i]
          /\ Step(HandleUpdateLecture(Cur, i, script)))
         => /\ audioDataCache'[i] = NoData
            /\ audioBufferCache'[i] = NoBuffer
            /\ \A j \in Lectures \ {i} :
                  /\ audioDataCache'[j] = audioDataCache[j]
                  /\ audioBufferCache'[j] = audioBufferCache[j]
                  /\ lectureUiState'[j] = lectureUiState[j]
                  /\ videoStates'[j] = videoStates[j]]_vars

\* Lecture 0 has just been edited (its caches are empty and its synthesis
\* request is in flight) while lecture 1 keeps its bytes, its decoded
\* buffer and a video that is not idle.
C8_Witness ==
    /\ InFlight(audioRequests, "edit", 0)
    /\ course.scripts[0] \in EditScripts
    /\ audioDataCache[0] = NoData
    /\ audioDataCache[1] # NoData
    /\ audioBufferCache[1] # NoBuffer
    /\ videoStates[1] # "idle"

\* C9: for every outline the 'course ready' toast is added at most once,
\* and once it has been added no per-lecture task of that outline is still
\* unsettled.
C9_CourseReadyOnce ==
    \A g \in Outlines :
        /\ readyToasts[g] <= 1
        /\ readyToasts[g] > 0
           => \A r \in 1 .. Len(populateRuns) : populateRuns[r].outline # g

\* C10: a step in which the detail or the audio request of lecture i fails
\* sets lecture i's state to error and leaves the course, both caches and
\* every other lecture's state as they were, and the sibling tasks of the
\* run stay in flight; and a sibling whose audio then arrives, in a run
\* where another lecture has failed, becomes loaded with its bytes cached.
C10_FailureIsIsolated ==
    [][\A r \in 1 .. Len(populateRuns), i \in Lectures :
         /\ (populateRuns[r].stage[i] \in {"detail", "audio"} /\ Step(TaskFailed(Cur, r, i)))
            => /\ lectureUiState'[i] = "error"
               /\ \A j \in Lectures \ {i} : lectureUiState'[j] = lectureUiState[j]
               /\ course' = course
               /\ audioDataCache' = audioDataCache
               /\ audioBufferCache' = audioBufferCache
               /\ \A j \in Lectures \ {i} :
                     populateRuns[r].stage[j] \in {"detail", "audio"}
                     => /\ Len(populateRuns') = Len(populateRuns)
                        /\ populateRuns'[r].stage[j] = populateRuns[r].stage[j]
         /\ \A wellFormed \in BOOLEAN :
              (/\ populateRuns[r].stage[i] = "audio"
               /\ \E j \in Lectures : populateRuns[r].stage[j] = "fail"
               /\ Step(AudioArrived(Cur, r, i, wellFormed)))
              => /\ lectureUiState'[i] = "loaded"
                 /\ audioDataCache'[i] = SynthBytes(populateRuns[r].outline, wellFormed)
                 /\ audioDataCache'[i] # NoData]_vars

\* Lecture 0's request failed, leaving it in error without a payload, and
\* lecture 1, whose requests succeeded, is loaded with its bytes cached.
C10_Witness ==
    /\ lectureUiState[0] = "error"
    /\ audioDataCache[0] = NoData
    /\ lectureUiState[1] = "loaded"
    /\ audioDataCache[1] # NoData
    /\ course # NoCourse
    /\ course.scripts[1] # NoScript

\* C11: no step issues a synthesis request for a lecture that has no
\* script (neither generateSingleAudio nor a populateAllLectures task in
\* its audio stage), and no step takes a lecture from content-loading to
\* loaded.
C11_ScriptBeforeAudio ==
    [][/\ \A k \in 1 .. Len(audioRequests') : audioRequests'[k].script # NoScript
       /\ \A r \in 1 .. Len(populateRuns'), i \in Lectures :
             populateRuns'[r].stage[i] = "audio"
             => (r <= Len(populateRuns) /\ populateRuns[r].stage[i] \in {"detail", "audio"})
       /\ \A i \in Lectures :
             lectureUiState[i] = "content-loading" => lectureUiState'[i] # "loaded"]_vars

\* The poll timers that are running for a lecture index.
TimersOf(i) == {t \in timers : t.index = i}

\* C12: in every state and for every lecture index, a poll timer is running
\* for the index exactly when the index's video state is generating.
C12_TimerIffGenerating ==
    \A i \in Lectures : (TimersOf(i) # {}) <=> (videoStates[i] = "generating")

\* C13: in every state at most one poll timer is running per lecture index
\* (pollForVideo gives each timer a new id, so a poll loop started for an
\* index that has a timer leaves one timer only if it cancelled the other).
C13_OneTimerPerIndex ==
    \A i \in Lectures : Cardinality(TimersOf(i)) <= 1

\* A second poll loop has been started for lecture 0, and its timer is the
\* only one running: the first timer of lecture 0 was cancelled.
C13_Witness ==
    /\ timerCount = 2
    /\ timers = {[id |-> 2, index |-> 0, gen |-> generations]}
    /\ pollingIntervals[0] = 2

\* C14: when the interval of a wait of handleDownloadAll fires with the
\* waited lecture's bytes absent and the attempt ceiling passed, the export
\* ends with the timeout error that names that lecture, downloads nothing
\* and resets isDownloadingAll; and a file is offered for download only
\* with the bytes of every lecture in it.
C14_ExportTimesOut ==
    [][/\ (/\ ExportTimerFires
           /\ audioDataCache[exportTask.i] = NoData
           /\ exportTask.attempts > ExportMaxAttempts)
          => /\ exportError' = [kind |-> "timeout", index |-> exportTask.i]
             /\ downloads' = downloads
             /\ ~isDownloadingAll'
             /\ ~exportTask'.active
       /\ downloads' # downloads
          => /\ Len(downloads'[Len(downloads')]) = NumLectures
             /\ \A k \in 1 .. NumLectures : downloads'[Len(downloads')][k] # NoData]_vars

\* The export gave up waiting for lecture 1 after collecting lecture 0's
\* bytes: the error names lecture 1, nothing was downloaded and the
\* exporting flag is reset.
C14_Witness ==
    /\ exportError = [kind |-> "timeout", index |-> 1]
    /\ audioDataCache[0] # NoData
    /\ audioDataCache[1] = NoData
    /\ downloads = <<>>
    /\ ~isDownloadingAll

\* Little-endian reading of `width` bytes from a 0-based offset on.
RECURSIVE ReadLE(_, _, _)
ReadLE(bytes, offset, width) ==
    IF width = 0 THEN 0
    ELSE bytes[offset + 1] + 256 * ReadLE(bytes, offset + 1, width - 1)

RECURSIVE Concatenation(_)
Concatenation(chunks) ==
    IF chunks = <<>> THEN <<>> ELSE Head(chunks) \o Concatenation(Tail(chunks))

\* The data section of a WAV file: its bytes from offset 44 on.
DataSection(bytes) == SubSeq(bytes, 45, Len(bytes))

\* C15: the data section of the merged WAV is the concatenation of the
\* decoded payloads in input order with nothing added: cutting it at the
\* lengths of the payloads gives each payload back unchanged.
C15_MergedDataIsConcatenation ==
    wavBlob.kind = "merged"
    => LET pcm == [k \in 1 .. Len(base64Audios) |-> Decode(base64Audios[k])]
           data == DataSection(wavBlob.bytes)
           start(k) == Len(Concatenation(SubSeq(pcm, 1, k - 1)))
       IN  /\ data = Concatenation(pcm)
           /\ \A k \in 1 .. Len(pcm) :
                  SubSeq(data, start(k) + 1, start(k) + Len(pcm[k])) = pcm[k]

C15_Witness ==
    /\ wavBlob.kind = "merged"
    /\ Len(base64Audios) = 2
    /\ Decode(base64Audios[1]) = <<85, 95>>
    /\ Decode(base64Audios[2]) = <<255, 245, 127>>
    /\ DataSection(wavBlob.bytes) = <<85, 95, 255, 245, 127>>

\* C16: the WAV of a payload of n bytes is a 44-byte header, 'RIFF',
\* chunkSize 36 + n, 'WAVE', 'fmt ' of 16 bytes declaring PCM, mono,
\* 24000 Hz, byteRate 48000, blockAlign 2 and 16 bits, 'data' and dataSize
\* n, every number little-endian, followed by the n bytes of the payload.
C16_CanonicalHeader ==
    wavBlob.kind # "none"
    => LET bytes == wavBlob.bytes
           n == Len(bytes) - 44
       IN  /\ n >= 0
           /\ SubSeq(bytes, 1, 4) = <<82, 73, 70, 70>>
           /\ ReadLE(bytes, 4, 4) = 36 + n
           /\ SubSeq(bytes, 9, 12) = <<87, 65, 86, 69>>
           /\ SubSeq(bytes, 13, 16) = <<102, 109, 116, 32>>
           /\ ReadLE(bytes, 16, 4) = 16
           /\ ReadLE(bytes, 20, 2) = 1
           /\ ReadLE(bytes, 22, 2) = 1
           /\ ReadLE(bytes, 24, 4) = 24000
           /\ ReadLE(bytes, 28, 4) = 48000
           /\ ReadLE(bytes, 32, 2) = 2
           /\ ReadLE(bytes, 34, 2) = 16
           /\ SubSeq(bytes, 37, 40) = <<100, 97, 116, 97>>
           /\ ReadLE(bytes, 40, 4) = n
           /\ \A b \in 1 .. Len(bytes) : bytes[b] \in 0 .. 255
           /\ wavBlob.kind = "single"
              => /\ n = Len(Decode(base64Audios[wavBlob.index]))
                 /\ DataSection(bytes) = Decode(base64Audios[wavBlob.index])

C16_Witness ==
    /\ wavBlob.kind = "single"
    /\ Len(wavBlob.bytes) = 47
    /\ SubSeq(wavBlob.bytes, 5, 8) = <<39, 0, 0, 0>>
    /\ SubSeq(wavBlob.bytes, 25, 32) = <<192, 93, 0, 0, 128, 187, 0, 0>>
    /\ DataSection(wavBlob.bytes) = <<255, 245, 127>>

\* The session after a failed load: the error message shown, not loading,
\* no source sounding and no advance to a following lecture recorded.
EndedInError(s) ==
    /\ s.playerState.error = LoadError
    /\ ~s.playerState.isLoading
    /\ ~s.playerState.isPlaying
    /\ ~Playing(s.currentSourceRef)
    /\ s.lastPlayedIndex = NoIndex

\* C17: when the synthesis of the selected lecture fails, or its payload
\* does not decode, the session is left in the error state with the
\* message, not loading, nothing playing and no auto-advance scheduled;
\* whether the failure comes with the click or with the request it started.
C17_FailureEndsInError ==
    [][/\ \A k \in 1 .. Len(audioRequests) :
              /\ audioRequests[k].kind \in {"play", "retry"}
              /\ audioRequests[k].index = currentlyPlaying.index
              /\ \/ Cur' = SingleAudioFailed(Cur, k)
                 \/ Cur' = SingleAudioArrived(Cur, k, FALSE)
              => EndedInError(Cur')
       /\ \A i \in Lectures :
              /\ ClickLecture
              /\ currentlyPlaying.index # i
              /\ currentlyPlaying'.index = i
              /\ audioRequests' = audioRequests
              /\ audioBufferCache[i] = NoBuffer
              /\ ~Decodable(audioDataCache[i])
              => EndedInError(Cur')]_vars

\* The states the buttons of lecture i's row, its edit modal and, when it
\* is the session's lecture, the player's Retry button lead to.
LectureActions(i) ==
    (IF HasContent(Cur, i) /\ lectureUiState[i] \notin {"content-loading", "loading"}
     THEN {IF lectureUiState[i] = "error" THEN Cur
           ELSE HandleSetLectureToPlay(Cur, course.scripts[i], i)}
     ELSE {})
    \cup (IF HasContent(Cur, i)
          THEN {HandleUpdateLecture(Cur, i, script) :
                    script \in EditScripts \cup {course.scripts[i]}}
          ELSE {})
    \cup (IF currentlyPlaying.index = i /\ playerState.error # NoError
             /\ ~playerState.isLoading
          THEN {HandleRetryAudioGeneration(Cur)}
          ELSE {})

\* s has a generation request for lecture i in flight that Cur has not.
Reinvokes(s, i) ==
    \/ \E k \in 1 .. Len(s.audioRequests) :
           /\ s.audioRequests[k].index = i
           /\ k > Len(audioRequests)
    \/ \E r \in 1 .. Len(s.populateRuns) :
           /\ s.populateRuns[r].stage[i] \in {"detail", "audio"}
           /\ r > Len(populateRuns)

\* C18: a lecture in the error state has a user action of its own that
\* re-invokes generation for it.
C18_RetryAvailable ==
    \A i \in Lectures :
        (course # NoCourse /\ lectureUiState[i] = "error")
        => \E s \in LectureActions(i) : Reinvokes(s, i)

\* C19: detail generation is requested once per lecture and outline: a
\* step issues detail requests only when it installs a new outline, and
\* then one per lecture of that outline.
C19_DetailsRequestedOnce ==
    [][Len(populateRuns') > Len(populateRuns)
       => /\ Len(populateRuns') = Len(populateRuns) + 1
          /\ course'.outline # course.outline
          /\ LET run == populateRuns'[Len(populateRuns')]
             IN  /\ run.outline = course'.outline
                 /\ \A i \in Lectures : run.stage[i] = "detail"
                 /\ \A r \in 1 .. Len(populateRuns) :
                        populateRuns[r].outline # run.outline]_vars

\* C20: a source that is sounding plays the session's current lecture; the
\* audio of a lecture the user has switched away from, or closed, does not
\* start when it arrives.
C20_PlayingIsCurrent ==
    \A n \in AllNodes : Playing(n) => n.index = currentlyPlaying.index

\* A click on the play/pause button, or on the row of the current lecture.
ToggleClick == (ClickPlayPause \/ ClickLecture) /\ currentlyPlaying' = currentlyPlaying

\* C21: a pause stores the position the sounding source has reached (the
\* offset it was started at plus the clock time elapsed since), and a
\* resume starts the new source at the stored offset; over any number of
\* pause/resume cycles.
C21_PauseStoresPosition ==
    [][/\ (/\ ToggleClick
           /\ playerState.isPlaying
           /\ Playing(currentSourceRef)
           /\ currentSourceRef.index = currentlyPlaying.index)
          => playbackPausedTimeRef' = NodePosition(currentSourceRef, ctxTime)
       /\ (/\ ToggleClick
           /\ ~playerState.isPlaying
           /\ Playing(currentSourceRef'))
          => currentSourceRef'.offset = playbackPausedTimeRef]_vars

\* C22: a seek to fraction f, with a current lecture of known duration,
\* sets progress to f and currentTime to f x duration at once; a playing
\* source is replaced by one started at f x duration; when nothing plays no
\* source starts and f x duration is stored for the next resume.
C22_SeekSetsPosition ==
    [][(Seek /\ playerState.duration # 0)
       => \E f \in SeekFractions :
              LET newTime == (playerState.duration * f) \div PScale
              IN  /\ playerState'.progress = f
                  /\ playerState'.currentTime = newTime
                  /\ playbackPausedTimeRef' = newTime
                  /\ IF playerState.isPlaying
                     THEN /\ Playing(currentSourceRef')
                          /\ currentSourceRef'.index = currentlyPlaying.index
                          /\ currentSourceRef'.startAt = ctxTime
                          /\ currentSourceRef'.offset = newTime
                          /\ PlayingNodes' = 1
                     ELSE /\ currentSourceRef' = currentSourceRef
                          /\ PlayingNodes' = 0]_vars

\* C23: with a current lecture, no error and not loading, selecting the
\* current lecture pauses it when it is playing and sets it playing again
\* when it is paused.
C23_SelectingCurrentToggles ==
    (Rendered /\ currentlyPlaying # NoLecture /\ playerState.error = NoError
        /\ ~playerState.isLoading)
    => LET s == HandleSetLectureToPlay(Cur, currentlyPlaying.script,
                                       currentlyPlaying.index)
       IN  IF playerState.isPlaying
           THEN ~s.playerState.isPlaying /\ ~Playing(s.currentSourceRef)
           ELSE s.playerState.isPlaying /\ Playing(s.currentSourceRef)

\* The session plays lecture i from the start: its source, started now at
\* offset 0, is the only one sounding, and the session is playing and no
\* longer loading.
PlaysFromStart(i) ==
    /\ Playing(currentSourceRef')
    /\ currentSourceRef'.index = i
    /\ currentSourceRef'.offset = 0
    /\ currentSourceRef'.startAt = ctxTime
    /\ PlayingNodes' = 1
    /\ playerState'.isPlaying
    /\ ~playerState'.isLoading
    /\ playbackPausedTimeRef' = 0

\* C24: selecting a lecture other than the current one, by its row or by
\* auto-advance, stops the source that sounds and makes the lecture current;
\* with bytes cached and no error state they are decoded unless a decoded
\* buffer is cached, and playback starts at offset 0; otherwise the session
\* is marked loading and one synthesis request for the lecture is issued,
\* and playback starts at offset 0 when it returns bytes that decode.
C24_SelectingOtherRestarts ==
    [][/\ \A i \in Lectures :
              (/\ ClickLecture \/ AutoAdvance
               /\ currentlyPlaying.index # i
               /\ currentlyPlaying'.index = i)
              => /\ currentlyPlaying'.script = course.scripts[i]
                 /\ \A k \in 1 .. Len(detached') : ~Playing(detached'[k])
                 /\ IF audioDataCache[i] = NoData \/ lectureUiState[i] = "error"
                    THEN /\ audioRequests' =
                                Append(audioRequests,
                                       [kind |-> "play", index |-> i,
                                        script |-> course.scripts[i],
                                        gen |-> generations])
                         /\ playerState' = [InitialPlayerState EXCEPT !.isLoading = TRUE]
                         /\ playbackPausedTimeRef' = 0
                         /\ PlayingNodes' = 0
                         /\ audioBufferCache' = audioBufferCache
                         /\ audioDataCache' = audioDataCache
                    ELSE /\ audioRequests' = audioRequests
                         /\ audioDataCache' = audioDataCache
                         /\ IF audioBufferCache[i] # NoBuffer
                            THEN audioBufferCache' = audioBufferCache /\ PlaysFromStart(i)
                            ELSE IF Decodable(audioDataCache[i])
                            THEN /\ audioBufferCache' =
                                        [audioBufferCache EXCEPT
                                            ![i] = DecodeAudioData(audioDataCache[i])]
                                 /\ PlaysFromStart(i)
                            ELSE audioBufferCache' = audioBufferCache /\ EndedInError(Cur')
       /\ \A k \in 1 .. Len(audioRequests) :
              (/\ audioRequests[k].kind = "play"
               /\ audioRequests[k].index = currentlyPlaying.index
               /\ Cur' = SingleAudioArrived(Cur, k, TRUE))
              => /\ PlaysFromStart(audioRequests[k].index)
                 /\ audioBufferCache'[audioRequests[k].index] =
                        DecodeAudioData(audioDataCache'[audioRequests[k].index])]_vars

\* Lecture 1 plays from the start, selected while lecture 0 was playing, its
\* bytes decoded by the selection; and again, from its cached buffer.
C24_Witness ==
    /\ currentlyPlaying.index = 1
    /\ Playing(currentSourceRef)
    /\ currentSourceRef.index = 1
    /\ currentSourceRef.offset = 0
    /\ currentSourceRef.startAt = ctxTime
    /\ ctxTime > 0
    /\ audioBufferCache[0] # NoBuffer
    /\ audioBufferCache[1] # NoBuffer
    /\ playerState.isPlaying

\* C25: the decoded buffer cached for a lecture is the decoding of the bytes
\* cached for it: whatever replaces or removes the bytes removes the
\* buffer with them.
C25_BufferDerivedFromBytes ==
    \A i \in Lectures :
        audioBufferCache[i] # NoBuffer
        => audioBufferCache[i] = DecodeAudioData(audioDataCache[i])

\* C26: a save that changes lecture i's script clears lecture i's duration
\* and video state and issues one synthesis request, for lecture i with
\* the new script; it issues no detail request and no other synthesis
\* request.
C26_EditRequestsOneSynthesis ==
    [][\A i \in Lectures, script \in EditScripts :
         (/\ Rendered
          /\ HasContent(Cur, i)
          /\ script # course.scripts[i]
          /\ Step(HandleUpdateLecture(Cur, i, script)))
         => /\ actualDurations'[i] = 0
            /\ videoStates'[i] = "idle"
            /\ audioRequests' = Append(audioRequests,
                                       [kind |-> "edit", index |-> i, script |-> script,
                                        gen |-> generations])
            /\ Len(populateRuns') = Len(populateRuns)
            /\ \A r \in 1 .. Len(populateRuns) : populateRuns'[r] = populateRuns[r]]_vars

\* No synthesis for lecture i is outstanding: no generateSingleAudio request
\* and no task of a populateAllLectures run.
SynthesisSettled(i) ==
    /\ \A k \in 1 .. Len(audioRequests) : audioRequests[k].index # i
    /\ \A r \in 1 .. Len(populateRuns) : populateRuns[r].stage[i] \in {"ok", "fail"}

\* C27: once every synthesis request for an edited lecture has settled, the
\* bytes cached for it are those synthesized from its latest script, in
\* whatever order the requests resolved.
C27_BytesFromLatestScript ==
    \A i \in Lectures :
        (/\ course # NoCourse
         /\ course.scripts[i] \in EditScripts
         /\ SynthesisSettled(i)
         /\ audioDataCache[i] # NoData)
        => \E wellFormed \in BOOLEAN :
               audioDataCache[i] = SynthBytes(course.scripts[i], wellFormed)

\* C28: the step that starts a course generation leaves no source sounding
\* and no current lecture, no poll timer alive, both caches empty and every
\* lecture's generation state, duration and video state reset; the outline
\* request is the last thing it issues.
C28_RegenerationResets ==
    [][GenerateCourse
       => /\ PlayingNodes' = 0
          /\ currentSourceRef' = NoNode
          /\ currentlyPlaying' = NoLecture
          /\ ~playerState'.isPlaying
          /\ playerState'.error = NoError
          /\ playbackPausedTimeRef' = 0
          /\ timers' = {}
          /\ \A i \in Lectures :
                /\ pollingIntervals'[i] = NoTimer
                /\ audioDataCache'[i] = NoData
                /\ audioBufferCache'[i] = NoBuffer
                /\ lectureUiState'[i] = "none"
                /\ actualDurations'[i] = 0
                /\ videoStates'[i] = "idle"
          /\ course' = NoCourse
          /\ isOutlining'
          /\ outlineRequest' = generations'
          /\ generations' = generations + 1]_vars

\* A course generation was started while a lecture was playing and a poll
\* timer was running.
C28_Witness ==
    /\ generations = 2
    /\ isOutlining
    /\ timerCount > 0
    /\ timers = {}
    /\ \E k \in 1 .. Len(detached) : detached[k].status = "stopped"
    /\ currentlyPlaying = NoLecture

\* The timer whose callback made status check k has been cleared.
TimerCleared(k) == \A t \in timers : t.id # statusChecks[k].timer

\* C29: when the status check of a callback whose timer has been cleared
\* meanwhile resolves, no video state is set and no timer is cleared or
\* unregistered.
C29_ClearedTimerCallbackIsNoOp ==
    [][\A k \in 1 .. Len(statusChecks) :
         (/\ TimerCleared(k)
          /\ \E outcome \in {"pending", "ready", "failed", "keyInvalid"},
                hasKey \in BOOLEAN : Step(StatusArrived(Cur, k, outcome, hasKey)))
         => /\ videoStates' = videoStates
            /\ timers' = timers
            /\ pollingIntervals' = pollingIntervals]_vars

\* C30: when the status check of a live timer reports the operation done,
\* the timer is cleared and unregistered and the lecture's video state
\* becomes ready (a download link came) or error (the job failed, no link
\* came, or the call threw); while the operation is not done the video
\* states and the timers stay as they are.
C30_PollOutcome ==
    [][\A k \in 1 .. Len(statusChecks) :
         \A outcome \in {"pending", "ready", "failed", "keyInvalid"}, hasKey \in BOOLEAN :
            (~TimerCleared(k) /\ Step(StatusArrived(Cur, k, outcome, hasKey)))
            => LET index == statusChecks[k].index
               IN  IF outcome = "pending"
                   THEN /\ videoStates' = videoStates
                        /\ timers' = timers
                        /\ pollingIntervals' = pollingIntervals
                   ELSE /\ \A t \in timers' : t.id # statusChecks[k].timer
                                              /\ t.index # index
                        /\ pollingIntervals'[index] = NoTimer
                        /\ videoStates'[index] =
                               (IF outcome = "ready" THEN "ready" ELSE "error")
                        /\ \A j \in Lectures \ {index} :
                               /\ videoStates'[j] = videoStates[j]
                               /\ pollingIntervals'[j] = pollingIntervals[j]]_vars

\* A lecture's video is ready and its poll timer is gone, while the other
\* lecture's job is still polled.
C30_Witness ==
    /\ generations = 1
    /\ videoStates[0] = "ready"
    /\ pollingIntervals[0] = NoTimer
    /\ videoStates[1] = "generating"
    /\ pollingIntervals[1] # NoTimer
    /\ Cardinality(timers) = 1
    /\ statusChecks = <<>>

\* The API key modal is open and the action it holds is for lecture i.
AwaitsGate(s, i) ==
    /\ s.isApiKeyModalOpen
    /\ s.pendingAction # NoAction
    /\ s.pendingAction.index = i

\* The modal was dismissed, or key selection was rejected.
GateDismissed == Cur' = HandleSelectApiKey(Cur, FALSE, FALSE)

\* Key selection resolved.
GateSatisfied == \E hasKey \in BOOLEAN : Cur' = HandleSelectApiKey(Cur, TRUE, hasKey)

\* C31: when a status check fails with the invalid-key message, the
\* lecture's timer is cleared and unregistered and the API key modal opens
\* holding the lecture's generation; that generation stays held while the
\* modal is open, and when key selection resolves a start request for the
\* same lecture is made, with no click on the lecture in between.
C31_InvalidKeyPollRestarts ==
    [][\A i \in Lectures :
         /\ (\E k \in 1 .. Len(statusChecks), hasKey \in BOOLEAN :
                /\ statusChecks[k].index = i
                /\ Step(StatusArrived(Cur, k, "keyInvalid", hasKey)))
            => /\ pollingIntervals'[i] = NoTimer
               /\ \A t \in timers' : t.index # i
               /\ videoStates'[i] = "error"
               /\ AwaitsGate(Cur', i)
               /\ pendingAction'.kind = "generationLogic"
         /\ (/\ AwaitsGate(Cur, i)
             /\ pendingAction.kind = "generationLogic"
             /\ videoStates[i] = "error")
            => \/ AwaitsGate(Cur', i) /\ pendingAction'.kind = "generationLogic"
               \/ GateDismissed
               \/ /\ GateSatisfied
                  /\ videoStates'[i] = "generating"
                  /\ \E k \in 1 .. Len(videoStarts') : videoStarts'[k].index = i]_vars

\* C32: a handleGenerateVideo call that finds no selected key, or is made
\* with forced key selection, makes no start request: it stores the job as
\* the pending action and opens the API key modal.  When key selection
\* resolves, exactly one start request is made, for the lecture of the
\* pending action, and the modal is closed with nothing pending; when the
\* modal is dismissed or key selection is rejected, the pending action is
\* dropped and no start request is made.
C32_GatePendsAndStartsOnce ==
    [][/\ \A i \in Lectures, hasKey \in BOOLEAN :
            (/\ Rendered
             /\ HasContent(Cur, i)
             /\ videoStates[i] \in {"idle", "error"}
             /\ ~hasKey \/ videoStates[i] = "error"
             /\ Step(HandleGenerateVideo(Cur, i, generations, videoStates[i] = "error", hasKey)))
            => /\ videoStarts' = videoStarts
               /\ videoStates' = videoStates
               /\ AwaitsGate(Cur', i)
       /\ \A hasKey \in BOOLEAN :
            (/\ isApiKeyModalOpen
             /\ pendingAction # NoAction
             /\ Step(HandleSelectApiKey(Cur, TRUE, hasKey)))
            => /\ videoStarts' = Append(videoStarts, [index |-> pendingAction.index,
                                                      gen |-> pendingAction.gen])
               /\ pendingAction' = NoAction
               /\ ~isApiKeyModalOpen'
       /\ (isApiKeyModalOpen /\ Step(HandleSelectApiKey(Cur, FALSE, FALSE)))
            => /\ videoStarts' = videoStarts
               /\ videoStates' = videoStates
               /\ pendingAction' = NoAction
               /\ ~isApiKeyModalOpen']_vars

\* C33: in every reachable state a lecture whose video state is generating
\* has a start request in flight, a live poll timer, or a pending action
\* held by the open API key modal.
C33_GeneratingHasPendingWork ==
    \A i \in Lectures :
        videoStates[i] = "generating"
        => \/ \E k \in 1 .. Len(videoStarts) : videoStarts[k].index = i
           \/ \E t \in timers : t.index = i
           \/ AwaitsGate(Cur, i)

\* C34: a check of the export wait that finds the waited lecture's bytes
\* ends the wait without the timeout error; a check that does not find them
\* leaves the wait going while fewer than 60 checks have been unsuccessful,
\* and the 60th unsuccessful check ends the export with the timeout error
\* for that lecture.
C34_WaitCeiling ==
    [][ExportTimerFires
       => LET i == exportTask.i
          IN  IF audioDataCache[i] # NoData
              THEN /\ ~(exportTask'.active /\ exportTask'.i = i)
                   /\ exportError' = exportError
              ELSE IF exportTask.attempts + 1 < ExportMaxAttempts
              THEN /\ exportTask'.active
                   /\ exportTask'.i = i
                   /\ exportTask'.attempts = exportTask.attempts + 1
              ELSE /\ ~exportTask'.active
                   /\ exportError' = [kind |-> "timeout", index |-> i]]_vars

\* The payloads the export has collected: those of the running task, or
\* none when no export is running.
Collected == IF exportTask.active THEN exportTask.audioDatas ELSE <<>>

\* The list d extends the payloads collected before the step, and every
\* payload the step added at place k is what the byte cache holds for
\* lecture k - 1.
ExtendsInLectureOrder(d) ==
    /\ Len(d) >= Len(Collected)
    /\ SubSeq(d, 1, Len(Collected)) = Collected
    /\ \A k \in (Len(Collected) + 1) .. Len(d) :
          d[k] # NoData /\ d[k] = audioDataCache[k - 1]

\* C35: handleDownloadAll hands a list to the merge and offers the download
\* only when the list holds one payload for each of the NumLectures
\* lectures; while it runs, the list holds one payload for each lecture
\* before the one it waits for, and each payload was taken from the byte
\* cache entry of the lecture whose place it has, so the list is in lecture
\* index order.
C35_ExportInLectureOrder ==
    [][/\ downloads' # downloads
          => /\ downloads' = Append(downloads, downloads'[Len(downloads')])
             /\ Len(downloads'[Len(downloads')]) = NumLectures
             /\ ExtendsInLectureOrder(downloads'[Len(downloads')])
             /\ exportError' = NoExportError
       /\ exportTask'.active
          => /\ Len(exportTask'.audioDatas) = exportTask'.i
             /\ ExtendsInLectureOrder(exportTask'.audioDatas)]_vars

\* A full-course file was downloaded: it holds one payload per lecture, and
\* the payloads of lectures 0 and 1, which differ, are its first and second.
C35_Witness ==
    /\ downloads # <<>>
    /\ ~isDownloadingAll
    /\ exportError = NoExportError
    /\ Len(downloads[1]) = NumLectures
    /\ downloads[1][1] = audioDataCache[0]
    /\ downloads[1][2] = audioDataCache[1]
    /\ downloads[1][1] # downloads[1][2]

\* C36: in every reachable state a lecture whose generation state is loaded
\* has its bytes in audioDataCache.
C36_LoadedHasBytes ==
    \A i \in Lectures : lectureUiState[i] = "loaded" => audioDataCache[i] # NoData

\* Lecture 0 is loaded with the bytes synthesized for its edited script,
\* while lecture 1, which was loaded before its script was edited, has no
\* bytes and is loading.
C36_Witness ==
    /\ course # NoCourse
    /\ course.scripts[0] = MaxGen + 1
    /\ lectureUiState[0] = "loaded"
    /\ audioDataCache[0] = SynthBytes(MaxGen + 1, TRUE)
    /\ course.scripts[1] = MaxGen + 1
    /\ lectureUiState[1] = "loading"
    /\ audioDataCache[1] = NoData
    /\ populateRuns = <<>>

\* C37: when generateCourseOutline throws, no course is installed, no
\* populateAllLectures run and no audio request is started, no generation
\* state is set, the error toast is added and isOutlining becomes false, so
\* that the Generate button is enabled again; and as long as that toast is
\* the last generation's outcome there is no course and no run of the failed
\* generation.
C37_OutlineFailureAborts ==
    [][/\ OutlineFails
          => /\ course = NoCourse
             /\ course' = NoCourse
             /\ populateRuns' = populateRuns
             /\ audioRequests' = audioRequests
             /\ lectureUiState' = lectureUiState
             /\ outlineErrorToast'
             /\ ~isOutlining'
             /\ outlineRequest' = 0
       /\ outlineErrorToast'
          => /\ course' = NoCourse
             /\ ~isOutlining'
             /\ \A r \in 1 .. Len(populateRuns') :
                   populateRuns'[r].outline # generations']_vars

\* The outline of the second generation failed while tasks of the first
\* course were still in flight: there is no course, the error toast is
\* shown and the outlining flag is reset.
C37_Witness ==
    /\ outlineErrorToast
    /\ ~isOutlining
    /\ outlineRequest = 0
    /\ course = NoCourse
    /\ generations = 2
    /\ populateRuns # <<>>
    /\ \A i \in Lectures : lectureUiState[i] # "content-loading"

\* The signed little-endian 16-bit value at sample index k of the bytes.
SignedSample(data, k) ==
    LET u == ReadLE(data, 2 * k, 2)
    IN  IF u < 32768 THEN u ELSE u - 65536

\* C38: for every input whose byte length holds at least one whole frame,
\* decodeAudioData returns a buffer of floor(byteLength / 2 / numChannels)
\* frames, whatever is left over after the last whole frame, a single odd
\* byte included, and sample i of channel c is the signed little-endian
\* 16-bit value at sample index i * numChannels + c.
C38_FramesAreFloor ==
    LET data == decodedAudio.data
        numChannels == decodedAudio.numChannels
        buffer == decodedAudio.buffer
        frames == (Len(data) \div 2) \div numChannels
    IN  (decodedAudio # NoDecoded /\ frames >= 1)
        => /\ buffer.error = "none"
           /\ buffer.length = frames
           /\ Len(buffer.channelData) = numChannels
           /\ \A c \in 0 .. numChannels - 1, i \in 0 .. frames - 1 :
                 buffer.channelData[c + 1][i + 1] = SignedSample(data, i * numChannels + c)

\* The state stopPlayback(clearPlayer) leaves when called in state s: no
\* source is referenced and no node sounds, isPlaying is false, the volume
\* and the caches are those of s; with clearPlayer there is no current
\* lecture, the stored offset is 0, progress, currentTime and duration are 0
\* and the error is cleared; without it the current lecture, the stored
\* offset, duration, progress, currentTime and error are those of s.
StopFrame(s, clearPlayer) ==
    LET r == StopPlayback(s, clearPlayer)
    IN  /\ r.currentSourceRef = NoNode
        /\ \A k \in 1 .. Len(r.detached) : ~Playing(r.detached[k])
        /\ ~r.playerState.isPlaying
        /\ r.playerState.volume = s.playerState.volume
        /\ r.audioDataCache = s.audioDataCache
        /\ r.audioBufferCache = s.audioBufferCache
        /\ r.actualDurations = s.actualDurations
        /\ IF clearPlayer
           THEN /\ r.currentlyPlaying = NoLecture
                /\ r.playbackPausedTimeRef = 0
                /\ r.playerState.progress = 0
                /\ r.playerState.currentTime = 0
                /\ r.playerState.duration = 0
                /\ r.playerState.error = NoError
           ELSE /\ r.currentlyPlaying = s.currentlyPlaying
                /\ r.playbackPausedTimeRef = s.playbackPausedTimeRef
                /\ r.playerState.progress = s.playerState.progress
                /\ r.playerState.currentTime = s.playerState.currentTime
                /\ r.playerState.duration = s.playerState.duration
                /\ r.playerState.error = s.playerState.error

\* C39: in every reachable state, stopPlayback with clearPlayer and
\* stopPlayback without it would each leave the state described by
\* StopFrame; and the player's Close button, which calls stopPlayback(true),
\* leaves it.
C39_StopFrame ==
    [][/\ StopFrame(Cur, TRUE)
       /\ StopFrame(Cur, FALSE)
       /\ ClickClose => Cur' = StopPlayback(Cur, TRUE)]_vars

\* The player was closed while a muted lecture was playing: nothing is
\* referenced or sounding, the session is cleared, the volume is still 0
\* and the decoded buffer is still cached.
C39_Witness ==
    /\ currentlyPlaying = NoLecture
    /\ currentSourceRef = NoNode
    /\ \E k \in 1 .. Len(detached) : detached[k].status = "stopped"
    /\ playerState.volume = 0
    /\ ~playerState.isPlaying
    /\ playerState.duration = 0
    /\ playbackPausedTimeRef = 0
    /\ \E i \in Lectures : audioBufferCache[i] # NoBuffer

\* Lecture i is generating and its poll timer is running.
Polled(i) == videoStates[i] = "generating" /\ TimersOf(i) # {}

\* C40: a status check of a running timer that reports the operation not
\* done leaves every timer registered and running and every video state as
\* it is, however many checks came before it; a running timer can always
\* fire again when a status check can be made; and when the checks of a
\* generating lecture do not report not-done for ever, the lecture's state
\* becomes ready or error and no timer is left running for it.
C40_PollsUntilSettled ==
    /\ [][\A k \in 1 .. Len(statusChecks), hasKey \in BOOLEAN :
            (~TimerCleared(k) /\ Step(StatusArrived(Cur, k, "pending", hasKey)))
            => /\ timers' = timers
               /\ pollingIntervals' = pollingIntervals
               /\ videoStates' = videoStates]_vars
    /\ [](\A i \in Lectures :
            (TimersOf(i) # {} /\ Len(statusChecks) < MaxChecks)
            => ENABLED PollTimerFiresFor(i))
    /\ \A i \in Lectures :
          Polled(i) ~> (videoStates[i] \in {"ready", "error"} /\ TimersOf(i) = {})

\* Lecture 0 is generating with its timer running and a status check of
\* that timer in flight, while lecture 1's job has already ended in an
\* error and has no timer.
C40_Witness ==
    /\ Polled(0)
    /\ Len(statusChecks) = 1
    /\ statusChecks[1].index = 0
    /\ ~TimerCleared(1)
    /\ videoStates[1] = "error"
    /\ TimersOf(1) = {}
    /\ timerCount = 2

====
